---- MODULE Spec2Model ----
(***************************************************************************)
(* ExposureGraph: the risk-scoring engine (src/src/scoring/calculator.py)  *)
(* and its result model (src/src/graph/models.py).                         *)
(*                                                                         *)
(* Python strings are TLA+ strings; Python's None and the optional fields  *)
(* of WebServiceData are the records None and Some(v).                     *)
(***************************************************************************)
EXTENDS Integers, Sequences, FiniteSets, TLC

VARIABLES
    _outdated_tech,        \* RiskCalculator._outdated_tech: the signature table
    _non_prod_indicators,  \* RiskCalculator._non_prod_indicators
    webservice,            \* the WebServiceData handed to calculate_score
    result,                \* the RiskResult it returned
    pc,                    \* "idle", "called", "returned" or "raised"
    calls,                 \* the calls made so far: <<signal, result>> pairs
    whatif_args,           \* the arguments of the calculate_risk_score call
                           \* in progress, None when the caller is not the tool
    threads,               \* the calculate_score calls of concurrent threads
                           \* on the one instance: each thread's locals
    _driver,               \* Neo4jClient._driver: None or the driver object
    server_up,             \* whether the Neo4j server can be reached
    db,                    \* the stored graph: nodes, edges and the clock
    connected,             \* history: connect() has completed and close()
                           \* has not been called since
    last_op,               \* the outcome of the client's latest operation
    block,                 \* "body" inside a `with Neo4jClient()` block
    scan,                  \* the scan command: its position and its locals
    _neo4j_client,         \* the MCP server's client singleton, or None
    _graph_agent,          \* the MCP server's GraphQueryAgent singleton, or None
    sent,                  \* the statements session.run has sent to the server
    tool,                  \* the MCP tool call in progress, or the latest one
    agent                  \* GraphQueryAgent.query: its position and locals

\* The graph store and its client.
store == <<_driver, server_up, db, connected, last_op, block>>

\* The state outside the single caller of calculate_score.
\* The MCP server.
mcp == <<_neo4j_client, _graph_agent, sent, tool, agent>>

others == <<threads, store, scan, mcp>>

vars == <<_outdated_tech, _non_prod_indicators, webservice, result, pc, calls,
          whatif_args, threads, _driver, server_up, db, connected, last_op,
          block, scan, _neo4j_client, _graph_agent, sent, tool, agent>>

-----------------------------------------------------------------------------
(* Python values *)

None == [some |-> FALSE]
Some(v) == [some |-> TRUE, val |-> v]

\* Python truthiness of an optional string or list: not None and not empty.
Truthy(o) == o.some /\ Len(o.val) > 0

Min(a, b) == IF a <= b THEN a ELSE b

UPPER == "ABCDEFGHIJKLMNOPQRSTUVWXYZ"
LOWER == "abcdefghijklmnopqrstuvwxyz"
DIGITS == "0123456789"

\* The character of s at position i, as a string of length one.
CharAt(s, i) == SubSeq(s, i, i)

\* The characters of the string alphabet, as a set.
CharsOf(alphabet) == {CharAt(alphabet, i) : i \in 1..Len(alphabet)}

UpperChars == CharsOf(UPPER)
DigitChars == CharsOf(DIGITS)

\* The lowercase letter of each uppercase letter.
LowerOf ==
    [c \in UpperChars |->
        CharAt(LOWER, CHOOSE i \in 1..Len(UPPER) : CharAt(UPPER, i) = c)]

\* str.lower() on one character.
lower_char(c) == IF c \in UpperChars THEN LowerOf[c] ELSE c

\* str.lower()
RECURSIVE lower(_)
lower(s) ==
    IF Len(s) = 0 THEN ""
    ELSE lower_char(CharAt(s, 1)) \o lower(SubSeq(s, 2, Len(s)))

\* Python's `p in s` on strings: substring containment.
contains(p, s) ==
    \E i \in 1..(Len(s) - Len(p) + 1) : SubSeq(s, i, i + Len(p) - 1) = p

\* str.startswith
startswith(s, prefix) ==
    Len(s) >= Len(prefix) /\ SubSeq(s, 1, Len(prefix)) = prefix

\* The uppercase letter of each lowercase letter.
UpperOf ==
    [c \in CharsOf(LOWER) |->
        CharAt(UPPER, CHOOSE i \in 1..Len(LOWER) : CharAt(LOWER, i) = c)]

\* str.upper()
RECURSIVE upper(_)
upper(s) ==
    IF Len(s) = 0 THEN ""
    ELSE IF Len(s) = 1 THEN (IF s \in DOMAIN UpperOf THEN UpperOf[s] ELSE s)
    ELSE LET half == Len(s) \div 2
         IN  upper(SubSeq(s, 1, half)) \o upper(SubSeq(s, half + 1, Len(s)))

\* str.find(sub, start): the first position of sub at or after start, 0 for
\* none (positions count from 1)
find(sub, s, start) ==
    LET at == {i \in start..(Len(s) - Len(sub) + 1) :
                  SubSeq(s, i, i + Len(sub) - 1) = sub}
    IN  IF at = {} THEN 0 ELSE CHOOSE i \in at : \A j \in at : i <= j

WHITESPACE == " \t\n\r\f"
WhitespaceChars == CharsOf(WHITESPACE)

\* str.strip(): leading and trailing whitespace removed.
RECURSIVE lstrip(_)
lstrip(s) ==
    IF Len(s) > 0 /\ CharAt(s, 1) \in WhitespaceChars
    THEN lstrip(SubSeq(s, 2, Len(s)))
    ELSE s

RECURSIVE rstrip(_)
rstrip(s) ==
    IF Len(s) > 0 /\ CharAt(s, Len(s)) \in WhitespaceChars
    THEN rstrip(SubSeq(s, 1, Len(s) - 1))
    ELSE s

strip(s) == rstrip(lstrip(s))

\* str.split(","): the pieces between the commas, empty pieces included.
RECURSIVE split_comma(_, _)
split_comma(s, piece) ==
    IF Len(s) = 0 THEN <<piece>>
    ELSE IF CharAt(s, 1) = ","
    THEN <<piece>> \o split_comma(SubSeq(s, 2, Len(s)), "")
    ELSE split_comma(SubSeq(s, 2, Len(s)), piece \o CharAt(s, 1))

\* str.split("\n")
RECURSIVE split_lines(_)
split_lines(s) ==
    LET nl == find("\n", s, 1)
    IN  IF nl = 0 THEN <<s>>
        ELSE <<SubSeq(s, 1, nl - 1)>> \o split_lines(SubSeq(s, nl + 1, Len(s)))

\* " ".join(pieces)
RECURSIVE join_space(_)
join_space(pieces) ==
    IF pieces = <<>> THEN ""
    ELSE IF Len(pieces) = 1 THEN pieces[1]
    ELSE pieces[1] \o " " \o join_space(Tail(pieces))

\* [t.strip() for t in pieces if t.strip()]
RECURSIVE stripped_nonempty(_)
stripped_nonempty(pieces) ==
    IF pieces = <<>> THEN <<>>
    ELSE LET t == strip(Head(pieces))
         IN  (IF Len(t) > 0 THEN <<t>> ELSE <<>>) \o stripped_nonempty(Tail(pieces))

\* Python's `x or None` on a string or list: None for the empty value.
or_None(x) == IF Len(x) > 0 THEN Some(x) ELSE None

-----------------------------------------------------------------------------
(* Module-level tables of calculator.py *)

\* A dict keeps insertion order: the table is the sequence of its items.
OUTDATED_TECHNOLOGIES == <<
    <<"php/5", "PHP 5.x is end-of-life since January 2019">>,
    <<"php/7.0", "PHP 7.0 is end-of-life since December 2018">>,
    <<"php/7.1", "PHP 7.1 is end-of-life since December 2019">>,
    <<"php/7.2", "PHP 7.2 is end-of-life since November 2020">>,
    <<"apache/2.2", "Apache 2.2.x is end-of-life since July 2017">>,
    <<"nginx/1.1", "Nginx 1.1x is significantly outdated">>,
    <<"nginx/1.0", "Nginx 1.0x is significantly outdated">>,
    <<"openssl/1.0", "OpenSSL 1.0.x is end-of-life since December 2019">>,
    <<"jquery/1.", "jQuery 1.x has known security vulnerabilities">>,
    <<"jquery/2.", "jQuery 2.x has known security vulnerabilities">>,
    <<"angular/1.", "AngularJS 1.x is end-of-life since December 2021">>,
    <<"node/8", "Node.js 8 is end-of-life since December 2019">>,
    <<"node/10", "Node.js 10 is end-of-life since April 2021">>,
    <<"node/12", "Node.js 12 is end-of-life since April 2022">>,
    <<"python/2", "Python 2 is end-of-life since January 2020">>,
    <<"tomcat/7", "Apache Tomcat 7 is end-of-life">>,
    <<"tomcat/8.0", "Apache Tomcat 8.0 is end-of-life">>,
    <<"iis/6", "IIS 6 is end-of-life">>,
    <<"iis/7", "IIS 7 is end-of-life">> >>

NON_PROD_INDICATORS ==
    <<"staging", "dev", "test", "uat", "sandbox", "demo", "qa", "preprod">>

BASE_SCORE == 20

RiskFactor(name, contribution, explanation) ==
    [name |-> name, contribution |-> contribution, explanation |-> explanation]

\* Faulty variant: the upper bound is exclusive (lt=100).
RiskResultValid_lt_100(score) == score >= 0 /\ score < 100

\* RiskResult's field validation: score: int = Field(..., ge=0, le=100)
RiskResultValid(score) == score >= 0 /\ score <= 100

RiskResult(score, factors) == [score |-> score, factors |-> factors]

-----------------------------------------------------------------------------
(* RiskCalculator's helpers *)

\* for indicator in self._non_prod_indicators: if indicator in url_lower: return
RECURSIVE non_prod_scan(_, _, _)
non_prod_scan(indicators, url_lower, i) ==
    IF i > Len(indicators) THEN None
    ELSE IF contains(indicators[i], url_lower) THEN Some(indicators[i])
    ELSE non_prod_scan(indicators, url_lower, i + 1)

\* Faulty variant: the url is not lowercased before the scan.
_check_non_production_case_sensitive(indicators, url) ==
    non_prod_scan(indicators, url, 1)

_check_non_production(indicators, url) ==
    non_prod_scan(indicators, lower(url), 1)

\* VERSION_PATTERN = /\d+[\.\d]* ; search() finds a match exactly when some
\* slash is directly followed by a digit (the rest of the pattern may be empty).
VERSION_PATTERN_search(s) ==
    \E i \in 1..(Len(s) - 1) :
        CharAt(s, i) = "/" /\ CharAt(s, i + 1) \in DigitChars

\* Faulty variant: VERSION_PATTERN.match, which looks at the start only.
_has_version_match(server_header) ==
    /\ Len(server_header) >= 2
    /\ CharAt(server_header, 1) = "/"
    /\ CharAt(server_header, 2) \in DigitChars

_has_version(server_header) == VERSION_PATTERN_search(server_header)

\* for pattern, reason in self._outdated_tech.items(): if pattern in text
\* The index of the first pattern of the table contained in text, 0 if none.
RECURSIVE pattern_scan(_, _, _)
pattern_scan(table, text, i) ==
    IF i > Len(table) THEN 0
    ELSE IF contains(table[i][1], text) THEN i
    ELSE pattern_scan(table, text, i + 1)

\* Faulty variant: the loops are nested the other way round, patterns outside
\* and technologies inside, so the table order decides between two entries.
RECURSIVE tech_scan_pattern_major(_, _, _)
tech_scan_pattern_major(table, technologies, i) ==
    IF i > Len(table) THEN None
    ELSE LET hits == {k \in DOMAIN technologies :
                        contains(table[i][1], lower(technologies[k]))}
         IN  IF hits # {}
             THEN Some(<<technologies[CHOOSE k \in hits : \A j \in hits : k <= j],
                         table[i][2]>>)
             ELSE tech_scan_pattern_major(table, technologies, i + 1)

\* Faulty variant: the matched pattern is returned instead of the technology.
RECURSIVE tech_scan_returns_pattern(_, _, _)
tech_scan_returns_pattern(table, technologies, k) ==
    IF k > Len(technologies) THEN None
    ELSE LET i == pattern_scan(table, lower(technologies[k]), 1)
         IN  IF i > 0 THEN Some(<<table[i][1], table[i][2]>>)
             ELSE tech_scan_returns_pattern(table, technologies, k + 1)

\* for tech in webservice.technologies: ... return (tech, reason)
RECURSIVE tech_scan(_, _, _)
tech_scan(table, technologies, k) ==
    IF k > Len(technologies) THEN None
    ELSE LET i == pattern_scan(table, lower(technologies[k]), 1)
         IN  IF i > 0 THEN Some(<<technologies[k], table[i][2]>>)
             ELSE tech_scan(table, technologies, k + 1)

\* Faulty variant: the technologies list is checked before the server header.
_check_outdated_tech_technologies_first(table, ws) ==
    LET t == IF Truthy(ws.technologies)
             THEN tech_scan(table, ws.technologies.val, 1)
             ELSE None
        i == IF Truthy(ws.server)
             THEN pattern_scan(table, lower(ws.server.val), 1)
             ELSE 0
    IN  IF t.some THEN t
        ELSE IF i > 0 THEN Some(<<table[i][1], table[i][2]>>)
        ELSE None

_check_outdated_tech(table, ws) ==
    LET i == IF Truthy(ws.server)
             THEN pattern_scan(table, lower(ws.server.val), 1)
             ELSE 0
    IN  IF i > 0 THEN Some(<<table[i][1], table[i][2]>>)
        ELSE IF Truthy(ws.technologies)
        THEN tech_scan(table, ws.technologies.val, 1)
        ELSE None

-----------------------------------------------------------------------------
(* The six rules of calculate_score, each on the running (factors, score) *)

add_factor(acc, factor, points) ==
    [factors |-> Append(acc.factors, factor), score |-> acc.score + points]

\* Faulty variant: every status code from 200 on counts as live.
rule_live_service_from_200(ws, acc) ==
    IF ws.status_code >= 200
    THEN add_factor(acc,
            RiskFactor("Live Service", 30,
                "Service responds with HTTP 200, confirming it is live and accessible"),
            30)
    ELSE acc

\* Faulty variant: every 2xx status code counts as live.
rule_live_service_any_2xx(ws, acc) ==
    IF ws.status_code >= 200 /\ ws.status_code < 300
    THEN add_factor(acc,
            RiskFactor("Live Service", 30,
                "Service responds with HTTP 200, confirming it is live and accessible"),
            30)
    ELSE acc

rule_live_service(ws, acc) ==
    IF ws.status_code = 200
    THEN add_factor(acc,
            RiskFactor("Live Service", 30,
                "Service responds with HTTP 200, confirming it is live and accessible"),
            30)
    ELSE acc

rule_non_production(indicators, ws, acc) ==
    LET non_prod_match == _check_non_production(indicators, ws.url)
    IN  IF Truthy(non_prod_match)
        THEN add_factor(acc,
                RiskFactor("Non-Production Exposed", 15,
                    "URL contains '" \o non_prod_match.val
                    \o "', indicating a non-production environment exposed to the internet"),
                15)
        ELSE acc

\* Faulty variant: the factor reports 15 points.
rule_version_disclosure_15(ws, acc) ==
    IF Truthy(ws.server) /\ _has_version(ws.server.val)
    THEN add_factor(acc,
            RiskFactor("Version Disclosure", 15,
                "Server header '" \o ws.server.val
                \o "' reveals version information, aiding attackers in finding known vulnerabilities"),
            15)
    ELSE acc

\* Faulty variant: a version in a technologies entry counts as well.
rule_version_disclosure_any_field(ws, acc) ==
    IF \/ Truthy(ws.server) /\ _has_version(ws.server.val)
       \/ /\ Truthy(ws.technologies)
          /\ \E k \in DOMAIN ws.technologies.val :
                _has_version(ws.technologies.val[k])
    THEN add_factor(acc,
            RiskFactor("Version Disclosure", 10,
                "Server header '" \o (IF ws.server.some THEN ws.server.val ELSE "")
                \o "' reveals version information, aiding attackers in finding known vulnerabilities"),
            10)
    ELSE acc

rule_version_disclosure(ws, acc) ==
    IF Truthy(ws.server) /\ _has_version(ws.server.val)
    THEN add_factor(acc,
            RiskFactor("Version Disclosure", 10,
                "Server header '" \o ws.server.val
                \o "' reveals version information, aiding attackers in finding known vulnerabilities"),
            10)
    ELSE acc

\* Faulty variant: the factor says 20 points and the score gets 10.
rule_outdated_technology_adds_10(table, ws, acc) ==
    LET outdated == _check_outdated_tech(table, ws)
    IN  IF outdated.some
        THEN add_factor(acc,
                RiskFactor("Outdated Technology", 20,
                    "Detected '" \o outdated.val[1] \o "': " \o outdated.val[2]),
                10)
        ELSE acc

\* Faulty variant: the rule is an `elif` of the Version Disclosure rule, so it
\* is skipped when that rule has fired.
rule_outdated_technology_elif(table, ws, acc) ==
    LET outdated == _check_outdated_tech(table, ws)
    IN  IF /\ outdated.some
           /\ ~\E i \in DOMAIN acc.factors :
                  acc.factors[i].name = "Version Disclosure"
        THEN add_factor(acc,
                RiskFactor("Outdated Technology", 20,
                    "Detected '" \o outdated.val[1] \o "': " \o outdated.val[2]),
                20)
        ELSE acc

rule_outdated_technology(table, ws, acc) ==
    LET outdated == _check_outdated_tech(table, ws)
    IN  IF outdated.some
        THEN add_factor(acc,
                RiskFactor("Outdated Technology", 20,
                    "Detected '" \o outdated.val[1] \o "': " \o outdated.val[2]),
                20)
        ELSE acc

\* Faulty variant: the factor says 15 points and the score gets 10.
rule_no_https_adds_10(ws, acc) ==
    IF startswith(ws.url, "http://")
    THEN add_factor(acc,
            RiskFactor("No HTTPS", 15,
                "Service uses unencrypted HTTP, exposing data in transit to interception and tampering"),
            10)
    ELSE acc

\* Faulty variant: the scheme is compared case-insensitively.
rule_no_https_case_insensitive(ws, acc) ==
    IF startswith(lower(ws.url), "http://")
    THEN add_factor(acc,
            RiskFactor("No HTTPS", 15,
                "Service uses unencrypted HTTP, exposing data in transit to interception and tampering"),
            15)
    ELSE acc

rule_no_https(ws, acc) ==
    IF startswith(ws.url, "http://")
    THEN add_factor(acc,
            RiskFactor("No HTTPS", 15,
                "Service uses unencrypted HTTP, exposing data in transit to interception and tampering"),
            15)
    ELSE acc

\* Faulty variant: the title is not lowercased before the test.
rule_directory_listing_case_sensitive(ws, acc) ==
    IF Truthy(ws.title) /\ contains("index of", ws.title.val)
    THEN add_factor(acc,
            RiskFactor("Directory Listing", 10,
                "Page title suggests directory listing is enabled, potentially exposing sensitive files and structure"),
            10)
    ELSE acc

rule_directory_listing(ws, acc) ==
    IF Truthy(ws.title) /\ contains("index of", lower(ws.title.val))
    THEN add_factor(acc,
            RiskFactor("Directory Listing", 10,
                "Page title suggests directory listing is enabled, potentially exposing sensitive files and structure"),
            10)
    ELSE acc

\* Faulty variant: the No HTTPS rule is evaluated before the Outdated
\* Technology rule.
accumulate_https_before_outdated(table, indicators, ws) ==
    LET acc0 == [factors |-> <<>>, score |-> BASE_SCORE]
        acc1 == rule_live_service(ws, acc0)
        acc2 == rule_non_production(indicators, ws, acc1)
        acc3 == rule_version_disclosure(ws, acc2)
        acc4 == rule_no_https(ws, acc3)
        acc5 == rule_outdated_technology(table, ws, acc4)
    IN  rule_directory_listing(ws, acc5)

\* Faulty variant: once the running score has reached 100 the remaining rules
\* are not evaluated.
accumulate_stops_at_cap(table, indicators, ws) ==
    LET acc0 == [factors |-> <<>>, score |-> BASE_SCORE]
        acc1 == rule_live_service(ws, acc0)
        acc2 == IF acc1.score >= 100 THEN acc1
                ELSE rule_non_production(indicators, ws, acc1)
        acc3 == IF acc2.score >= 100 THEN acc2
                ELSE rule_version_disclosure(ws, acc2)
        acc4 == IF acc3.score >= 100 THEN acc3
                ELSE rule_outdated_technology(table, ws, acc3)
        acc5 == IF acc4.score >= 100 THEN acc4
                ELSE rule_no_https(ws, acc4)
    IN  IF acc5.score >= 100 THEN acc5
        ELSE rule_directory_listing(ws, acc5)

\* factors and score after all six rules, before the cap
accumulate(table, indicators, ws) ==
    LET acc0 == [factors |-> <<>>, score |-> BASE_SCORE]
        acc1 == rule_live_service(ws, acc0)
        acc2 == rule_non_production(indicators, ws, acc1)
        acc3 == rule_version_disclosure(ws, acc2)
        acc4 == rule_outdated_technology(table, ws, acc3)
        acc5 == rule_no_https(ws, acc4)
    IN  rule_directory_listing(ws, acc5)

\* Faulty variant: the cap is left out.
final_score_uncapped(score) == score

\* final_score = min(score, 100)
final_score(score) == Min(score, 100)

-----------------------------------------------------------------------------
(* Inputs *)

MaxTechs == 2

Urls == {
    "https://clean.example.com",
    "https://api.example.com",
    "https://files.example.com",
    "http://staging.example.com",
    "https://qa.dev.example.com",
    "HTTP://DEMO.example.com",
    "http://www.example.com",
    "https://latest.example.com" }

StatusCodes == {200, 201, 403, 404}

Titles == {None, Some(""), Some("Index of /backups"), Some("Welcome")}

Servers == {
    None, Some(""),
    Some("nginx/1.0.5"),
    Some("nginx/1.18.0"),
    Some("Apache/2.2.15 PHP/5.4"),
    Some("Apache/2.4.41"),
    Some("cloudflare") }

Techs == {"jQuery/1.12", "PHP/5.6", "React"}

TechLists ==
    {None} \cup
    { Some(l) : l \in UNION { [1..n -> Techs] : n \in 0..MaxTechs } }

WebServiceData ==
    [url : Urls, status_code : StatusCodes, title : Titles,
     server : Servers, technologies : TechLists]

-----------------------------------------------------------------------------
(* The state machine *)

NumThreads == 2
Threads == 1..NumThreads

\* A database without nodes; clock stands for the value of datetime().
EmptyGraph == [nodes |-> <<>>, edges |-> <<>>, clock |-> 0]

\* The scan command has not been started.
NoScan ==
    [pc |-> "idle", target |-> "", allowed_targets |-> <<>>,
     skip_httpx |-> FALSE, subdomains_found |-> <<>>, services_found |-> <<>>,
     i |-> 0, exit_code |-> None, events |-> <<>>]

\* No MCP tool has been called.
NoTool ==
    [n |-> 0, name |-> "none", arg |-> "", returned |-> "none",
     error |-> "", got_client |-> FALSE, client_connected |-> FALSE,
     connect_attempted |-> FALSE, output |-> <<>>]

\* GraphQueryAgent.query is not running.
NoQuery ==
    [pc |-> "idle", question |-> "", cypher |-> "", raw_results |-> <<>>,
     trace |-> <<>>, failed |-> "none", sent_before |-> 0, result |-> None]

\* No client operation has been invoked yet.
NoOp ==
    [n |-> 0, op |-> "none", args |-> <<>>, raised |-> "none",
     ran_query |-> FALSE]

\* A thread that has not called calculate_score.
IdleThread ==
    [pc |-> "idle", ws |-> None, acc |-> None, step |-> 0, result |-> None]

\* RiskCalculator.__init__ has run: the instance holds the module tables.
Init ==
    /\ _outdated_tech = OUTDATED_TECHNOLOGIES
    /\ _non_prod_indicators = NON_PROD_INDICATORS
    /\ webservice = None
    /\ result = None
    /\ pc = "idle"
    /\ calls = <<>>
    /\ whatif_args = None
    /\ threads = [t \in Threads |-> IdleThread]
    /\ _driver = None
    /\ server_up = TRUE
    /\ db = EmptyGraph
    /\ connected = FALSE
    /\ last_op = NoOp
    /\ block = "outside"
    /\ scan = NoScan
    /\ _neo4j_client = None
    /\ _graph_agent = None
    /\ sent = <<>>
    /\ tool = NoTool
    /\ agent = NoQuery

\* A caller builds a WebServiceData and calls calculate_score with it.
Call(signals) ==
    /\ pc = "idle"
    /\ \E ws \in signals : webservice' = Some(ws)
    /\ result' = None
    /\ pc' = "called"
    /\ whatif_args' = None
    /\ UNCHANGED <<_outdated_tech, _non_prod_indicators>>

\* tech_list of calculate_risk_score: the comma-separated argument parsed.
tech_list(technologies) ==
    IF Len(technologies) > 0
    THEN stripped_nonempty(split_comma(technologies, ""))
    ELSE <<>>

\* Faulty variant: the arguments are passed on as they are, `or None` left out.
whatif_data_as_given(args) ==
    [url |-> args.url,
     status_code |-> args.status_code,
     title |-> Some(args.title),
     server |-> Some(args.server),
     technologies |-> Some(tech_list(args.technologies))]

\* The WebServiceData that calculate_risk_score builds from its arguments.
whatif_data(args) ==
    [url |-> args.url,
     status_code |-> args.status_code,
     title |-> or_None(args.title),
     server |-> or_None(args.server),
     technologies |-> or_None(tech_list(args.technologies))]

\* The MCP tool calculate_risk_score is called: it builds the WebServiceData
\* from its string arguments and calls calculate_score with it.
calculate_risk_score(arguments) ==
    /\ pc = "idle"
    /\ \E args \in arguments :
          /\ whatif_args' = Some(args)
          /\ webservice' = Some(whatif_data(args))
    /\ result' = None
    /\ pc' = "called"
    /\ UNCHANGED <<_outdated_tech, _non_prod_indicators>>

\* Faulty variant: the matched signature is popped from the instance's table
\* instead of being looked up.
calculate_score_pops_signature ==
    /\ pc = "called"
    /\ LET acc == accumulate(_outdated_tech, _non_prod_indicators, webservice.val)
           final == final_score(acc.score)
           outdated == _check_outdated_tech(_outdated_tech, webservice.val)
       IN  /\ IF RiskResultValid(final)
              THEN /\ result' = Some(RiskResult(final, acc.factors))
                   /\ pc' = "returned"
              ELSE /\ result' = None
                   /\ pc' = "raised"
           /\ _outdated_tech' =
                IF outdated.some
                THEN SelectSeq(_outdated_tech, LAMBDA e : e[2] # outdated.val[2])
                ELSE _outdated_tech
    /\ UNCHANGED <<_non_prod_indicators, webservice, whatif_args>>

\* Faulty variant: the url of the caller's object is normalised in place.
calculate_score_lowercases_url ==
    /\ pc = "called"
    /\ LET acc == accumulate(_outdated_tech, _non_prod_indicators, webservice.val)
           final == final_score(acc.score)
       IN  IF RiskResultValid(final)
           THEN /\ result' = Some(RiskResult(final, acc.factors))
                /\ pc' = "returned"
           ELSE /\ result' = None
                /\ pc' = "raised"
    /\ webservice' = Some([webservice.val EXCEPT !.url = lower(@)])
    /\ UNCHANGED <<_outdated_tech, _non_prod_indicators, whatif_args>>

\* RiskCalculator.calculate_score, from entry to the return of the RiskResult
\* (or to the validation error of RiskResult).
calculate_score ==
    /\ pc = "called"
    /\ LET acc == accumulate(_outdated_tech, _non_prod_indicators, webservice.val)
           final == final_score(acc.score)
       IN  IF RiskResultValid(final)
           THEN /\ result' = Some(RiskResult(final, acc.factors))
                /\ pc' = "returned"
           ELSE /\ result' = None
                /\ pc' = "raised"
    /\ UNCHANGED <<_outdated_tech, _non_prod_indicators, webservice, whatif_args>>

\* The caller has consumed the result.
Return ==
    /\ pc = "returned"
    /\ pc' = "idle"
    /\ webservice' = None
    /\ result' = None
    /\ whatif_args' = None
    /\ UNCHANGED <<_outdated_tech, _non_prod_indicators>>

Next ==
    \/ Call(WebServiceData) /\ UNCHANGED calls /\ UNCHANGED others
    \/ calculate_score /\ UNCHANGED calls /\ UNCHANGED others
    \/ Return /\ UNCHANGED calls /\ UNCHANGED others

Spec == Init /\ [][Next]_vars

-----------------------------------------------------------------------------
(* Repeated calls on one calculator instance, with the calls recorded *)

MaxCalls == 3

CallSignals ==
    [url : {"http://staging.example.com"},
     status_code : {200, 404},
     title : {None},
     server : {None, Some("nginx/1.0.5")},
     technologies : {None, Some(<<"jQuery/1.12", "PHP/5.6">>)}]

NextCalls ==
    \/ Len(calls) < MaxCalls /\ Call(CallSignals) /\ UNCHANGED calls
                              /\ UNCHANGED others
    \/ /\ calculate_score
       /\ calls' = Append(calls, [signal |-> webservice.val, result |-> result'])
       /\ UNCHANGED others
    \/ Return /\ UNCHANGED calls /\ UNCHANGED others

SpecCalls == Init /\ [][NextCalls]_vars

-----------------------------------------------------------------------------
(* Two calls on one calculator instance, by a direct caller or by the what-if
   tool, with the calls recorded *)

PairSignals ==
    [url : {"https://clean.example.com", "http://clean.example.com",
            "http://staging.example.com"},
     status_code : {200, 404},
     title : {None, Some(""), Some("Index of /backups")},
     server : {None, Some(""), Some("nginx/1.0.5")},
     technologies : {None, Some(<<>>), Some(<<"jQuery/1.12", "PHP/5.6">>)}]

WhatIfArguments ==
    [url : {"https://clean.example.com", "http://staging.example.com"},
     status_code : {200},
     title : {"", "Index of /backups"},
     server : {"", "nginx/1.0.5"},
     technologies : {"", " , ", "jQuery/1.12, PHP/5.6"}]

NextPairs ==
    \/ Len(calls) < 2 /\ Call(PairSignals) /\ UNCHANGED calls
                       /\ UNCHANGED others
    \/ Len(calls) < 2 /\ calculate_risk_score(WhatIfArguments) /\ UNCHANGED calls
                       /\ UNCHANGED others
    \/ /\ calculate_score
       /\ calls' = Append(calls, [signal |-> webservice.val, result |-> result'])
       /\ UNCHANGED others
    \/ Return /\ UNCHANGED calls /\ UNCHANGED others

SpecPairs == Init /\ [][NextPairs]_vars

-----------------------------------------------------------------------------
(* Concurrent calls of calculate_score on one shared calculator instance:
   each thread runs the body of calculate_score one rule at a time, on its own
   locals (ws, factors, score), reading the instance's two tables *)

ThreadSignals == {
    [url |-> "http://staging.example.com", status_code |-> 200, title |-> None,
     server |-> Some("nginx/1.0.5"), technologies |-> None],
    [url |-> "https://clean.example.com", status_code |-> 404, title |-> None,
     server |-> None, technologies |-> None],
    [url |-> "https://files.example.com", status_code |-> 200,
     title |-> Some("Index of /backups"), server |-> Some("Apache/2.4.41"),
     technologies |-> Some(<<"jQuery/1.12">>)] }

\* The calculator of the current view of this state: the single caller's
\* variables stay as they are while the threads run.
calc_vars == <<_outdated_tech, _non_prod_indicators, webservice, result, pc,
               calls, whatif_args>>

\* The k-th rule of calculate_score applied to the locals acc.
rule_step(table, indicators, ws, acc, k) ==
    CASE k = 1 -> rule_live_service(ws, acc)
      [] k = 2 -> rule_non_production(indicators, ws, acc)
      [] k = 3 -> rule_version_disclosure(ws, acc)
      [] k = 4 -> rule_outdated_technology(table, ws, acc)
      [] k = 5 -> rule_no_https(ws, acc)
      [] k = 6 -> rule_directory_listing(ws, acc)

\* Faulty variant: factors and score are attributes of the instance instead of
\* locals of the call, so the running threads share one accumulator.
thread_rule_shared_accumulator(table, indicators, ts, t) ==
    LET running == {u \in DOMAIN ts : ts[u].pc = "running"}
        owner == CHOOSE u \in running : \A v \in running : u <= v
        acc == rule_step(table, indicators, ts[t].ws.val, ts[owner].acc.val,
                         ts[t].step)
    IN  [u \in DOMAIN ts |->
            IF u = t
            THEN [ts[u] EXCEPT !.acc = Some(acc), !.step = ts[u].step + 1]
            ELSE IF u \in running
                 THEN [ts[u] EXCEPT !.acc = Some(acc)]
                 ELSE ts[u]]

\* Thread t evaluates its next rule: only its own locals change.
thread_rule(table, indicators, ts, t) ==
    [ts EXCEPT ![t] =
        [ts[t] EXCEPT !.acc = Some(rule_step(table, indicators, ts[t].ws.val,
                                             ts[t].acc.val, ts[t].step)),
                      !.step = ts[t].step + 1]]

\* Thread t calls calculate_score: factors = [], score = BASE_SCORE.
ThreadCall(t) ==
    /\ threads[t].pc = "idle"
    /\ \E ws \in ThreadSignals :
          threads' = [threads EXCEPT ![t] =
              [pc |-> "running", ws |-> Some(ws),
               acc |-> Some([factors |-> <<>>, score |-> BASE_SCORE]),
               step |-> 1, result |-> None]]
    /\ UNCHANGED calc_vars
    /\ UNCHANGED <<store, scan, mcp>>

ThreadRule(t) ==
    /\ threads[t].pc = "running"
    /\ threads[t].step <= 6
    /\ threads' = thread_rule(_outdated_tech, _non_prod_indicators, threads, t)
    /\ UNCHANGED calc_vars
    /\ UNCHANGED <<store, scan, mcp>>

\* Thread t caps the score and returns its RiskResult.
ThreadReturn(t) ==
    /\ threads[t].pc = "running"
    /\ threads[t].step = 7
    /\ LET acc == threads[t].acc.val
           final == final_score(acc.score)
       IN  threads' = [threads EXCEPT ![t] =
              IF RiskResultValid(final)
              THEN [@ EXCEPT !.pc = "done",
                             !.result = Some(RiskResult(final, acc.factors))]
              ELSE [@ EXCEPT !.pc = "raised"]]
    /\ UNCHANGED calc_vars
    /\ UNCHANGED <<store, scan, mcp>>

NextThreads ==
    \/ \E t \in Threads : ThreadCall(t)
    \/ \E t \in Threads : ThreadRule(t)
    \/ \E t \in Threads : ThreadReturn(t)

SpecThreads == Init /\ [][NextThreads]_vars

-----------------------------------------------------------------------------
(* The graph store (src/src/graph/client.py).  The database holds a sequence
   of nodes, each with a label, the property its MERGE pattern matches on
   (name, fqdn or url, here key), discovered_at and its other properties, and
   a sequence of edges <<type, from, to>> between node positions.  A Cypher
   statement runs as one transaction. *)

\* The nodes a pattern (n:label {key}) matches.
matching(g, label, key) ==
    {i \in DOMAIN g.nodes : g.nodes[i].label = label /\ g.nodes[i].key = key}

\* CREATE (n:label {key}) SET n.discovered_at = datetime(), n += props
create_node(g, label, key, props) ==
    [g EXCEPT !.nodes = Append(g.nodes,
        [label |-> label, key |-> key, discovered_at |-> g.clock,
         props |-> props])]

\* MERGE (n:label {key}) ON CREATE SET n.discovered_at = datetime(), n += props
merge_node(g, label, key, props) ==
    IF matching(g, label, key) # {}
    THEN g
    ELSE create_node(g, label, key, props)

\* SET n += props, for every node n of the set S
set_props(g, S, props) ==
    [g EXCEPT !.nodes =
        [i \in DOMAIN g.nodes |->
            IF i \in S THEN [g.nodes[i] EXCEPT !.props = props]
            ELSE g.nodes[i]]]

RECURSIVE merge_edges(_, _, _)
\* MERGE (a)-[:type]->(b), for every bound pair <<a, b>> of pairs
merge_edges(edges, type, pairs) ==
    IF pairs = {}
    THEN edges
    ELSE LET pair == CHOOSE q \in pairs : \A r \in pairs :
                        q[1] < r[1] \/ (q[1] = r[1] /\ q[2] <= r[2])
             edge == <<type, pair[1], pair[2]>>
             present == \E k \in DOMAIN edges : edges[k] = edge
         IN  merge_edges(IF present THEN edges ELSE Append(edges, edge),
                         type, pairs \ {pair})

merge_edge(g, type, froms, tos) ==
    [g EXCEPT !.edges = merge_edges(g.edges, type, froms \X tos)]

\* The transaction is over: datetime() of the next one is later.
commit(g) == [g EXCEPT !.clock = g.clock + 1]

\* Faulty variant: the name is stored as given, not lowercased.
create_domain_name_as_given(g, name, source) ==
    LET existed == matching(g, "Domain", name)
        g1 == merge_node(g, "Domain", name, [source |-> source])
    IN  commit(set_props(g1, existed, [source |-> source]))

\* The statement of Neo4jClient.create_domain, run with name.lower().
create_domain(g, name, source) ==
    LET key == lower(name)
        existed == matching(g, "Domain", key)
        g1 == merge_node(g, "Domain", key, [source |-> source])
    IN  commit(set_props(g1, existed, [source |-> source]))

\* The statement of Neo4jClient.create_subdomain.
create_subdomain(g, fqdn, parent_domain) ==
    LET d == lower(parent_domain)
        f == lower(fqdn)
        g1 == merge_node(g, "Domain", d, [source |-> "scan"])
        g2 == merge_node(g1, "Subdomain", f, <<>>)
    IN  commit(merge_edge(g2, "HAS_SUBDOMAIN",
                          matching(g2, "Domain", d), matching(g2, "Subdomain", f)))

RECURSIVE json_escape(_)
\* The escapes of json.dumps that the strings here can need: " and \.
json_escape(str) ==
    IF Len(str) = 0
    THEN ""
    ELSE IF Len(str) = 1
    THEN (IF str = "\"" THEN "\\\"" ELSE IF str = "\\" THEN "\\\\" ELSE str)
    ELSE LET half == Len(str) \div 2
         IN  json_escape(SubSeq(str, 1, half))
             \o json_escape(SubSeq(str, half + 1, Len(str)))

json_string(str) == "\"" \o json_escape(str) \o "\""

\* json.dumps of one factor dict: its keys in insertion order.
json_factor(f) ==
    "{\"name\": " \o json_string(f.name)
    \o ", \"contribution\": " \o ToString(f.contribution)
    \o ", \"explanation\": " \o json_string(f.explanation) \o "}"

RECURSIVE json_items(_, _)
json_items(factors, i) ==
    IF i > Len(factors)
    THEN ""
    ELSE (IF i > 1 THEN ", " ELSE "") \o json_factor(factors[i])
         \o json_items(factors, i + 1)

\* json.dumps(risk_factors), risk_factors a list of factor dicts
json_dumps(risk_factors) == "[" \o json_items(risk_factors, 1) \o "]"

\* The statement of Neo4jClient.create_webservice.
create_webservice(g, url, subdomain_fqdn, status_code, title, server, technologies, risk_score, risk_factors) ==
    LET risk_factors_json ==
            IF Truthy(risk_factors) THEN Some(json_dumps(risk_factors.val))
            ELSE None
        f == lower(subdomain_fqdn)
        g1 == merge_node(g, "Subdomain", f, <<>>)
        g2 == merge_node(g1, "WebService", url, <<>>)
        w == matching(g2, "WebService", url)
        g3 == set_props(g2, w,
                [status_code |-> status_code,
                 title |-> title,
                 server |-> server,
                 technologies |-> IF Truthy(technologies) THEN technologies.val
                                  ELSE <<>>,
                 risk_score |-> risk_score,
                 risk_factors |-> risk_factors_json])
    IN  commit(merge_edge(g3, "HOSTS", matching(g3, "Subdomain", f), w))

\* The statement of Neo4jClient.update_risk_score.
update_risk_score(g, url, risk_score, risk_factors) ==
    LET risk_factors_json == json_dumps(risk_factors)
        w == matching(g, "WebService", url)
    IN  commit([g EXCEPT !.nodes =
            [i \in DOMAIN g.nodes |->
                IF i \in w
                THEN [g.nodes[i] EXCEPT
                        !.props = [g.nodes[i].props EXCEPT
                            !.risk_score = Some(risk_score),
                            !.risk_factors = Some(risk_factors_json)]]
                ELSE g.nodes[i]]])

\* update_risk_score's return value: whether result.single() gave a record.
update_risk_score_found(g, url) == matching(g, "WebService", url) # {}

-----------------------------------------------------------------------------
(* Neo4jClient: connection management and the graph operations *)

MaxOps == 4

Op(op, args, raised, ran_query) ==
    [n |-> last_op.n + 1, op |-> op, args |-> args, raised |-> raised,
     ran_query |-> ran_query]

\* Neo4jClient.connect: the driver is stored, then connectivity is verified.
connect ==
    /\ _driver' = Some("driver")
    /\ IF server_up
       THEN /\ connected' = TRUE
            /\ last_op' = Op("connect", <<>>, "none", FALSE)
       ELSE /\ connected' = FALSE
            /\ last_op' = Op("connect", <<>>, "ServiceUnavailable", FALSE)
    /\ UNCHANGED <<server_up, db>>

\* Neo4jClient.close
close ==
    /\ _driver' = None
    /\ connected' = FALSE
    /\ last_op' = Op("close", <<>>, "none", FALSE)
    /\ UNCHANGED <<server_up, db>>

\* A graph operation: _session raises without a driver; with one, the
\* statement runs as a transaction with effect g, or fails when the server
\* cannot be reached.
in_session(op, args, g) ==
    /\ IF ~_driver.some
       THEN /\ last_op' = Op(op, args, "RuntimeError", FALSE)
            /\ db' = db
       ELSE IF ~server_up
       THEN /\ last_op' = Op(op, args, "ServiceUnavailable", FALSE)
            /\ db' = db
       ELSE /\ last_op' = Op(op, args, "none", TRUE)
            /\ db' = g
    /\ UNCHANGED <<_driver, server_up, connected>>

\* Arguments of the graph operations
DomainNames == {"example.com", "Example.COM"}
Sources == {"manual", "scan"}
Fqdns == {"api.example.com", "API.Example.com"}
ServiceUrls == {"https://api.example.com", "https://API.example.com"}
ServiceServers == {None, Some("nginx/1.0.5")}

CreateDomain ==
    \E name \in DomainNames, source \in Sources :
        in_session("create_domain", <<name, source>>,
                   create_domain(db, name, source))

CreateSubdomain ==
    \E fqdn \in Fqdns, parent_domain \in DomainNames :
        in_session("create_subdomain", <<fqdn, parent_domain>>,
                   create_subdomain(db, fqdn, parent_domain))

CreateWebService ==
    \E url \in ServiceUrls, server \in ServiceServers :
        in_session("create_webservice", <<url, server>>,
                   create_webservice(db, url, "API.Example.com", 200, None,
                                     server, None, None, None))

\* The client of a caller that connects and then upserts.
NextGraph ==
    \/ last_op.n < MaxOps /\ connect /\ UNCHANGED <<calc_vars, threads, block, scan, mcp>>
    \/ last_op.n < MaxOps /\ CreateDomain
                           /\ UNCHANGED <<calc_vars, threads, block, scan, mcp>>
    \/ last_op.n < MaxOps /\ CreateSubdomain
                           /\ UNCHANGED <<calc_vars, threads, block, scan, mcp>>
    \/ last_op.n < MaxOps /\ CreateWebService
                           /\ UNCHANGED <<calc_vars, threads, block, scan, mcp>>

SpecGraph == Init /\ [][NextGraph]_vars

\* Neo4jClient.__enter__: connect(), then the body of the with block starts;
\* when connect() raises, the block is not entered.
__enter__ ==
    /\ block = "outside"
    /\ connect
    /\ block' = IF server_up THEN "body" ELSE "outside"

\* Neo4jClient.__exit__, called when the body is left, normally or by an
\* exception.
__exit__ ==
    /\ block = "body"
    /\ close
    /\ block' = "outside"

\* The Neo4j server goes down, or comes back.
ServerDown ==
    /\ server_up
    /\ server_up' = FALSE
    /\ UNCHANGED <<_driver, db, connected, last_op, block>>

ServerUp ==
    /\ ~server_up
    /\ server_up' = TRUE
    /\ UNCHANGED <<_driver, db, connected, last_op, block>>

\* Any sequence of connect, close, with blocks and graph operations on one
\* client, while the server comes and goes.
NextClient ==
    \/ last_op.n < MaxOps /\ connect /\ UNCHANGED <<calc_vars, threads, block, scan, mcp>>
    \/ last_op.n < MaxOps /\ close /\ UNCHANGED <<calc_vars, threads, block, scan, mcp>>
    \/ last_op.n < MaxOps /\ __enter__ /\ UNCHANGED <<calc_vars, threads, scan, mcp>>
    \/ last_op.n < MaxOps /\ __exit__ /\ UNCHANGED <<calc_vars, threads, scan, mcp>>
    \/ last_op.n < MaxOps /\ CreateDomain
                           /\ UNCHANGED <<calc_vars, threads, block, scan, mcp>>
    \/ last_op.n < MaxOps /\ CreateWebService
                           /\ UNCHANGED <<calc_vars, threads, block, scan, mcp>>
    \/ ServerDown /\ UNCHANGED <<calc_vars, threads, scan, mcp>>
    \/ ServerUp /\ UNCHANGED <<calc_vars, threads, scan, mcp>>

SpecClient == Init /\ [][NextClient]_vars

-----------------------------------------------------------------------------
(* The scan command (src/scripts/run_scan.py): validate the target, run
   subfinder, run httpx, then persist and score inside a with block *)

MaxServices == 2

\* Settings.allowed_targets: the default, and a value set by ALLOWED_TARGETS
AllowedTargets == {<<"scanme.sh", "example.com">>, <<"Example.com">>}

Targets == {"example.com", "EXAMPLE.COM", "evil.org"}

\* Settings.is_target_allowed
is_target_allowed(allowed_targets, target) ==
    \E k \in DOMAIN allowed_targets : lower(target) = lower(allowed_targets[k])

\* What subfinder can report for a target
SubfinderResults == {<<>>, <<"api.example.com">>,
                     <<"API.example.com", "files.example.com">>}

\* What httpx can report: HttpxResult records
HttpxResults == {
    [url |-> "http://api.example.com", status_code |-> 200, title |-> None,
     server |-> Some("nginx/1.0.5"), technologies |-> <<>>,
     host |-> "api.example.com"],
    [url |-> "http://api.example.com", status_code |-> 404, title |-> None,
     server |-> None, technologies |-> <<"jQuery/1.12">>,
     host |-> "api.example.com"],
    [url |-> "https://files.example.com", status_code |-> 200,
     title |-> Some("Index of /backups"), server |-> Some("Apache/2.4.41"),
     technologies |-> <<"PHP/5.6">>, host |-> "files.example.com"] }

ServiceLists ==
    UNION {[1..n -> HttpxResults] : n \in 0..MaxServices}

\* A graph left by an earlier scan, with a score that is out of date.
SeededGraph ==
    LET g1 == create_domain(EmptyGraph, "example.com", "scan")
        g2 == create_subdomain(g1, "api.example.com", "example.com")
        g3 == create_webservice(g2, "http://api.example.com", "api.example.com",
                                403, Some("Forbidden"), None, None, None, None)
    IN  update_risk_score(g3, "http://api.example.com", 35,
            <<RiskFactor("No HTTPS", 15,
                "Service uses unencrypted HTTP, exposing data in transit to interception and tampering")>>)

\* The state in which a command or a server starts, over one of the graphs.
InitOver(graphs) ==
    /\ _outdated_tech = OUTDATED_TECHNOLOGIES
    /\ _non_prod_indicators = NON_PROD_INDICATORS
    /\ webservice = None
    /\ result = None
    /\ pc = "idle"
    /\ calls = <<>>
    /\ whatif_args = None
    /\ threads = [t \in Threads |-> IdleThread]
    /\ _driver = None
    /\ server_up = TRUE
    /\ db \in graphs
    /\ connected = FALSE
    /\ last_op = NoOp
    /\ block = "outside"
    /\ scan = NoScan
    /\ _neo4j_client = None
    /\ _graph_agent = None
    /\ sent = <<>>
    /\ tool = NoTool
    /\ agent = NoQuery

InitScan == InitOver({EmptyGraph, SeededGraph})

\* raise typer.Exit(code)
Exit(sc, code) == [sc EXCEPT !.pc = "exited", !.exit_code = Some(code)]

\* The command is started: python scripts/run_scan.py scan <target>
ScanCommand ==
    /\ scan.pc = "idle"
    /\ \E target \in Targets, allowed_targets \in AllowedTargets,
          skip_httpx \in BOOLEAN :
          scan' = [scan EXCEPT !.pc = "validate", !.target = target,
                               !.allowed_targets = allowed_targets,
                               !.skip_httpx = skip_httpx]
    /\ UNCHANGED store

\* Faulty variant: the error is printed and the scan goes on.
ValidateTarget_warns_only ==
    /\ scan.pc = "validate"
    /\ scan' = [scan EXCEPT !.pc = "subfinder"]
    /\ UNCHANGED store

\* validate_target, and the exit with code 1 on BadParameter
ValidateTarget ==
    /\ scan.pc = "validate"
    /\ scan' = IF is_target_allowed(scan.allowed_targets, scan.target)
               THEN [scan EXCEPT !.pc = "subfinder"]
               ELSE Exit(scan, 1)
    /\ UNCHANGED store

\* Step 1: subfinder runs; it fails, or reports subdomains (none: exit 0).
RunSubfinder ==
    /\ scan.pc = "subfinder"
    /\ \/ scan' = Exit([scan EXCEPT !.events = Append(@, "subfinder")], 1)
       \/ \E subdomains \in SubfinderResults :
             scan' = IF Len(subdomains) = 0
                     THEN Exit([scan EXCEPT !.events = Append(@, "subfinder")], 0)
                     ELSE [scan EXCEPT !.pc = "httpx",
                                       !.events = Append(@, "subfinder"),
                                       !.subdomains_found = subdomains]
    /\ UNCHANGED store

\* Step 2: httpx runs unless --skip-httpx; it fails, or reports services.
RunHttpx ==
    /\ scan.pc = "httpx"
    /\ IF scan.skip_httpx
       THEN scan' = [scan EXCEPT !.pc = "connect"]
       ELSE \/ scan' = Exit([scan EXCEPT !.events = Append(@, "httpx")], 1)
            \/ \E services \in ServiceLists :
                  scan' = [scan EXCEPT !.pc = "connect",
                                       !.events = Append(@, "httpx"),
                                       !.services_found = services]
    /\ UNCHANGED store

\* The position after a client call of the with block: on, or to the
\* exception handler through __exit__.
after_call(sc, name, raised, next, i) ==
    IF raised = "none"
    THEN [sc EXCEPT !.pc = next, !.i = i, !.events = Append(@, name)]
    ELSE [sc EXCEPT !.pc = "raising", !.events = Append(@, name)]

\* Step 3: with Neo4jClient() as client
ScanEnter ==
    /\ scan.pc = "connect"
    /\ __enter__
    /\ scan' = IF last_op'.raised = "none"
               THEN [scan EXCEPT !.pc = "create_indexes",
                                 !.events = Append(@, "connect")]
               ELSE Exit([scan EXCEPT !.events = Append(@, "connect")], 1)

ScanCreateIndexes ==
    /\ scan.pc = "create_indexes"
    /\ in_session("create_indexes", <<>>, commit(db))
    /\ scan' = after_call(scan, "create_indexes", last_op'.raised,
                          "create_domain", 0)
    /\ UNCHANGED block

ScanCreateDomain ==
    /\ scan.pc = "create_domain"
    /\ in_session("create_domain", <<scan.target, "scan">>,
                  create_domain(db, scan.target, "scan"))
    /\ scan' = after_call(scan, "create_domain", last_op'.raised,
                          "create_subdomain", 1)
    /\ UNCHANGED block

\* for subdomain in subdomains_found: client.create_subdomain(subdomain, target)
ScanCreateSubdomain ==
    /\ scan.pc = "create_subdomain"
    /\ IF scan.i > Len(scan.subdomains_found)
       THEN /\ scan' = [scan EXCEPT
                          !.pc = IF Len(scan.services_found) > 0
                                 THEN "create_webservice" ELSE "saved",
                          !.i = 1]
            /\ UNCHANGED store
       ELSE /\ in_session("create_subdomain",
                          <<scan.subdomains_found[scan.i], scan.target>>,
                          create_subdomain(db, scan.subdomains_found[scan.i],
                                           scan.target))
            /\ scan' = after_call(scan, "create_subdomain", last_op'.raised,
                                  "create_subdomain", scan.i + 1)
            /\ UNCHANGED block

\* for service in services_found: client.create_webservice(...)
ScanCreateWebService ==
    /\ scan.pc = "create_webservice"
    /\ IF scan.i > Len(scan.services_found)
       THEN /\ scan' = [scan EXCEPT !.pc = "score", !.i = 1]
            /\ UNCHANGED store
       ELSE LET service == scan.services_found[scan.i]
            IN  /\ in_session("create_webservice", <<service.url>>,
                        create_webservice(db, service.url, service.host,
                            service.status_code, service.title, service.server,
                            Some(service.technologies), None, None))
                /\ scan' = after_call(scan, "create_webservice",
                                      last_op'.raised, "create_webservice",
                                      scan.i + 1)
                /\ UNCHANGED block

\* ws_data = WebServiceData(...) of a probed service
ws_data(service) ==
    [url |-> service.url, status_code |-> service.status_code,
     title |-> service.title, server |-> service.server,
     technologies |-> Some(service.technologies)]

\* calculator.calculate_score(ws_data), as a value
score_of(table, indicators, ws) ==
    LET acc == accumulate(table, indicators, ws)
    IN  RiskResult(final_score(acc.score), acc.factors)

\* factors_dict: one dict per factor, in order
factors_dict(factors) ==
    [k \in DOMAIN factors |->
        [name |-> factors[k].name, contribution |-> factors[k].contribution,
         explanation |-> factors[k].explanation]]

\* Faulty variant: every service gets the result of the first service.
scored_service_first(services, i) == services[1]

\* The service whose result is stored in round i of the scoring loop.
scored_service(services, i) == services[i]

\* for service in services_found: score it and update_risk_score
ScanScore ==
    /\ scan.pc = "score"
    /\ IF scan.i > Len(scan.services_found)
       THEN /\ scan' = [scan EXCEPT !.pc = "saved"]
            /\ UNCHANGED store
       ELSE LET service == scan.services_found[scan.i]
                res == score_of(_outdated_tech, _non_prod_indicators,
                         ws_data(scored_service(scan.services_found, scan.i)))
                found == update_risk_score_found(db, service.url)
            IN  /\ in_session("update_risk_score", <<service.url>>,
                        update_risk_score(db, service.url, res.score,
                                          factors_dict(res.factors)))
                /\ scan' = after_call(scan,
                              IF found THEN "update_risk_score"
                              ELSE "update_risk_score: not found",
                              last_op'.raised, "score", scan.i + 1)
                /\ UNCHANGED block

\* The with block is left normally: __exit__, then the summary, exit code 0.
ScanSaved ==
    /\ scan.pc = "saved"
    /\ __exit__
    /\ scan' = Exit(scan, 0)

\* A client call raised: __exit__, then `except Exception`: exit code 1.
ScanRaising ==
    /\ scan.pc = "raising"
    /\ __exit__
    /\ scan' = Exit(scan, 1)

ServerChanges ==
    /\ scan.pc \notin {"idle", "exited"}
    /\ ServerDown \/ ServerUp
    /\ UNCHANGED scan

NextScan ==
    \/ ScanCommand /\ UNCHANGED <<calc_vars, threads, mcp>>
    \/ ValidateTarget /\ UNCHANGED <<calc_vars, threads, mcp>>
    \/ RunSubfinder /\ UNCHANGED <<calc_vars, threads, mcp>>
    \/ RunHttpx /\ UNCHANGED <<calc_vars, threads, mcp>>
    \/ ScanEnter /\ UNCHANGED <<calc_vars, threads, mcp>>
    \/ ScanCreateIndexes /\ UNCHANGED <<calc_vars, threads, mcp>>
    \/ ScanCreateDomain /\ UNCHANGED <<calc_vars, threads, mcp>>
    \/ ScanCreateSubdomain /\ UNCHANGED <<calc_vars, threads, mcp>>
    \/ ScanCreateWebService /\ UNCHANGED <<calc_vars, threads, mcp>>
    \/ ScanScore /\ UNCHANGED <<calc_vars, threads, mcp>>
    \/ ScanSaved /\ UNCHANGED <<calc_vars, threads, mcp>>
    \/ ScanRaising /\ UNCHANGED <<calc_vars, threads, mcp>>
    \/ ServerChanges /\ UNCHANGED <<calc_vars, threads, mcp>>

SpecScan == InitScan /\ [][NextScan]_vars

-----------------------------------------------------------------------------
(* The Neo4j server, as far as the statements below go: Cypher keywords are
   not case-sensitive, a statement that is not Cypher is rejected *)

URLS_QUERY == "MATCH (w:WebService) RETURN w.url"
OFFSET_QUERY == "MATCH (w:WebService) RETURN w.url AS offset"
DELETE_QUERY == "MATCH (n) DETACH DELETE n"
SET_QUERY == "MATCH (w:WebService) SET w.risk_score = 0 RETURN w.url"

\* The statement of Neo4jClient.get_stats, its whitespace reduced
STATS_QUERY ==
    "MATCH (d:Domain) WITH count(d) as domains MATCH (s:Subdomain) WITH domains, count(s) as subdomains MATCH (w:WebService) WITH domains, subdomains, count(w) as webservices RETURN domains, subdomains, webservices"

\* The statement of Neo4jClient.get_webservices_by_risk, its whitespace reduced
RISK_QUERY ==
    "MATCH (w:WebService) WHERE w.risk_score >= $min_score RETURN w.url as url, w.status_code as status_code, w.title as title, w.server as server, w.technologies as technologies, w.risk_score as risk_score, w.risk_factors as risk_factors, w.discovered_at as discovered_at ORDER BY w.risk_score DESC LIMIT $limit"

\* The url rows of the WebService nodes
url_rows(g) ==
    LET w == SelectSeq(g.nodes, LAMBDA node : node.label = "WebService")
    IN  [k \in DOMAIN w |-> [url |-> w[k].key]]

\* The server runs a statement on the graph g: the graph after it and the
\* rows it returns, or the error it answers with.
server_run(g, cypher) ==
    LET statement == upper(cypher)
    IN  IF statement \in {upper(URLS_QUERY), upper(OFFSET_QUERY), upper(RISK_QUERY)}
        THEN [raised |-> "none", g |-> g, rows |-> url_rows(g)]
        ELSE IF statement = upper(STATS_QUERY)
        THEN [raised |-> "none", g |-> g,
              rows |->
                LET count(label) ==
                        Cardinality({i \in DOMAIN g.nodes :
                                        g.nodes[i].label = label})
                IN  <<[domains |-> count("Domain"),
                       subdomains |-> count("Subdomain"),
                       webservices |-> count("WebService")]>>]
        ELSE IF statement = upper(DELETE_QUERY)
        THEN [raised |-> "none",
              g |-> [g EXCEPT !.nodes = <<>>, !.edges = <<>>],
              rows |-> <<>>]
        ELSE IF statement = upper(SET_QUERY)
        THEN [raised |-> "none",
              g |-> [g EXCEPT !.nodes =
                        [i \in DOMAIN g.nodes |->
                            IF g.nodes[i].label = "WebService"
                            THEN [g.nodes[i] EXCEPT !.props.risk_score = Some(0)]
                            ELSE g.nodes[i]]],
              rows |-> url_rows(g)]
        ELSE [raised |-> "CypherSyntaxError", g |-> g, rows |-> <<>>]

\* Neo4jClient.run_query on a client whose _driver is driver: whether the
\* statement reaches the server, the graph after it, rows or exception.
run_query(driver, g, cypher) ==
    IF ~driver.some
    THEN [raised |-> "RuntimeError", sent |-> FALSE, g |-> g, rows |-> <<>>]
    ELSE IF ~server_up
    THEN [raised |-> "ServiceUnavailable", sent |-> FALSE, g |-> g, rows |-> <<>>]
    ELSE LET out == server_run(g, cypher)
         IN  [raised |-> out.raised, sent |-> TRUE, g |-> out.g, rows |-> out.rows]

-----------------------------------------------------------------------------
(* The MCP server (src/src/mcp/server.py) *)

MaxToolCalls == 3

FORBIDDEN_KEYWORDS ==
    {"CREATE", "DELETE", "SET", "MERGE", "REMOVE", "DROP", "DETACH"}

\* get_neo4j_client: what it leaves in _neo4j_client and in the client, and
\* whether it raises (connect() failing) or returns the client.
get_neo4j_client ==
    IF ~_neo4j_client.some
    THEN [client |-> Some("client"), driver |-> Some("driver"),
          connected |-> server_up, connect_attempted |-> TRUE,
          raised |-> IF server_up THEN "none" ELSE "ServiceUnavailable"]
    ELSE [client |-> _neo4j_client, driver |-> _driver,
          connected |-> connected, connect_attempted |-> FALSE,
          raised |-> "none"]

\* The globals and the client after get_neo4j_client with outcome c.
after_get_client(c) ==
    /\ _neo4j_client' = c.client
    /\ _driver' = c.driver
    /\ connected' = c.connected

ToolCall(name, arg, returned, error, c, output) ==
    [n |-> tool.n + 1, name |-> name, arg |-> arg, returned |-> returned,
     error |-> error, got_client |-> c.raised = "none",
     client_connected |-> c.connected,
     connect_attempted |-> c.connect_attempted, output |-> output]

\* A tool call that does not get to get_neo4j_client.
NoClient ==
    [raised |-> "not called", connected |-> FALSE, connect_attempted |-> FALSE]

CanCall == tool.n < MaxToolCalls /\ tool.returned # "running"

\* The tool get_risk_overview: get_stats, then get_webservices_by_risk.
get_risk_overview ==
    /\ CanCall
    /\ LET c == get_neo4j_client
           stats == run_query(c.driver, db, STATS_QUERY)
           services == run_query(c.driver, db, RISK_QUERY)
       IN  /\ after_get_client(c)
           /\ IF c.raised # "none"
              THEN /\ tool' = ToolCall("get_risk_overview", "", "error", c.raised,
                                       c, <<>>)
                   /\ sent' = sent
              ELSE IF stats.raised # "none"
              THEN /\ tool' = ToolCall("get_risk_overview", "", "error",
                                       stats.raised, c, <<>>)
                   /\ sent' = IF stats.sent THEN Append(sent, STATS_QUERY)
                              ELSE sent
              ELSE /\ tool' = ToolCall("get_risk_overview", "", "ok", "", c,
                                       stats.rows \o services.rows)
                   /\ sent' = sent \o <<STATS_QUERY, RISK_QUERY>>
    /\ UNCHANGED <<server_up, db, last_op, block, _graph_agent, agent>>

\* What callers of run_cypher_query pass
CypherQueries ==
    {URLS_QUERY, OFFSET_QUERY, SET_QUERY, "match (n) detach delete n",
     "SELECT url FROM webservice"}

\* Faulty variant: the keywords are looked for in the query as given.
forbidden_in_as_given(cypher) ==
    {keyword \in FORBIDDEN_KEYWORDS : contains(keyword, cypher)}

\* The forbidden keywords found in cypher.upper()
forbidden_in(cypher) ==
    LET upper_ == upper(cypher)
    IN  {keyword \in FORBIDDEN_KEYWORDS : contains(keyword, upper_)}

\* The tool run_cypher_query
run_cypher_query ==
    /\ CanCall
    /\ \E cypher \in CypherQueries :
          LET found == forbidden_in(cypher)
          IN  IF found # {}
              THEN \* the first keyword found, in the iteration order of the set
                   /\ \E keyword \in found :
                         tool' = ToolCall("run_cypher_query", cypher, "error",
                                    "Write operations not allowed. Forbidden keyword: "
                                        \o keyword,
                                    NoClient, <<>>)
                   /\ UNCHANGED <<_neo4j_client, _driver, connected, sent, db>>
              ELSE LET c == get_neo4j_client
                       out == run_query(c.driver, db, cypher)
                   IN  /\ after_get_client(c)
                       /\ IF c.raised # "none"
                          THEN /\ tool' = ToolCall("run_cypher_query", cypher,
                                             "error", c.raised, c, <<>>)
                               /\ UNCHANGED <<sent, db>>
                          ELSE /\ tool' = ToolCall("run_cypher_query", cypher,
                                             IF out.raised = "none" THEN "ok"
                                             ELSE "error",
                                             IF out.raised = "none" THEN ""
                                             ELSE out.raised,
                                             c, out.rows)
                               /\ sent' = IF out.sent THEN Append(sent, cypher)
                                          ELSE sent
                               /\ db' = out.g
    /\ UNCHANGED <<server_up, last_op, block, _graph_agent, agent>>

-----------------------------------------------------------------------------
(* GraphQueryAgent (src/src/ai/graph_agent.py), called by the tool query_graph *)

\* The code fence of a Markdown answer, three backquotes in the source. A TLA+
\* string cannot hold a backquote, so the fence is written with tildes here.
FENCE == "~~~"

CLAUSE_KEYWORDS ==
    {"MATCH", "WHERE", "RETURN", "ORDER", "LIMIT", "WITH", "OPTIONAL",
     "UNWIND", "CALL"}

CONTINUATION_KEYWORDS ==
    {"AS", "DESC", "ASC", "AND", "OR", "NOT", "IN", "CONTAINS"}

\* re.search of the pattern: fence, optional "cypher", text up to the next
\* fence (DOTALL); gives group(1) stripped, or None without a match
fenced_block(response) ==
    LET opening == find(FENCE, response, 1)
        closing == IF opening = 0 THEN 0 ELSE find(FENCE, response, opening + 3)
        start == IF startswith(SubSeq(response, opening + 3, Len(response)), "cypher")
                 THEN opening + 9 ELSE opening + 3
    IN  IF closing = 0 THEN None
        ELSE Some(strip(SubSeq(response, start, closing - 1)))

RECURSIVE query_lines(_, _, _, _)
\* The loop of _extract_cypher over the lines of the response
query_lines(lines, k, in_query, cypher_lines) ==
    IF k > Len(lines)
    THEN cypher_lines
    ELSE LET line_stripped == strip(lines[k])
             upper_ == upper(line_stripped)
             in_query_ == in_query \/ startswith(upper_, "MATCH")
         IN  IF ~in_query_
             THEN query_lines(lines, k + 1, FALSE, cypher_lines)
             ELSE IF /\ Len(line_stripped) > 0
                     /\ ~\E kw \in CLAUSE_KEYWORDS : startswith(upper_, kw)
                     /\ ~startswith(line_stripped, "//")
                     /\ ~\E kw \in CONTINUATION_KEYWORDS : contains(kw, upper_)
             THEN cypher_lines
             ELSE query_lines(lines, k + 1, TRUE,
                              Append(cypher_lines, line_stripped))

\* GraphQueryAgent._extract_cypher
_extract_cypher(response) ==
    LET block_ == IF contains(FENCE, response) THEN fenced_block(response)
                  ELSE None
        cypher_lines == query_lines(split_lines(strip(response)), 1, FALSE, <<>>)
    IN  IF block_.some THEN block_.val
        ELSE IF cypher_lines # <<>> THEN join_space(cypher_lines)
        ELSE strip(response)

\* What the model can answer to the Cypher prompt
CypherResponses ==
    {"MATCH (w:WebService) RETURN w.url",
     "Here is the query:\n~~~cypher\nMATCH (n) DETACH DELETE n\n~~~",
     "MATCH (w:WebService)\nSET w.risk_score = 0\nRETURN w.url\nDone.",
     "I cannot answer that."}

\* What the model can answer to the summary prompt
SummaryResponses == {"One service is exposed.\n"}

Questions == {"Which services are exposed?"}

\* QueryResult
QueryResult(question, cypher, raw_results, summary, success, error) ==
    [question |-> question, cypher |-> cypher, raw_results |-> raw_results,
     summary |-> summary, success |-> success, error |-> error]

\* Faulty variant: the singular form is left out.
_basic_summary_always_plural(results) ==
    IF Len(results) = 0 THEN "No results found for this query."
    ELSE "Found " \o ToString(Len(results)) \o " results."

\* GraphQueryAgent._basic_summary
_basic_summary(results) ==
    IF Len(results) = 0 THEN "No results found for this query."
    ELSE IF Len(results) = 1 THEN "Found 1 result."
    ELSE "Found " \o ToString(Len(results)) \o " results."

\* The tool query_graph is called: get_graph_agent, then agent.query starts.
query_graph ==
    /\ CanCall
    /\ \E question \in Questions :
          IF _graph_agent.some
          THEN /\ tool' = ToolCall("query_graph", question, "running",
                                   "", NoClient, <<>>)
               /\ agent' = [NoQuery EXCEPT !.pc = "generate",
                                           !.question = question,
                                           !.sent_before = Len(sent)]
               /\ UNCHANGED <<_neo4j_client, _driver, connected, _graph_agent>>
          ELSE LET c == get_neo4j_client
               IN  /\ after_get_client(c)
                   /\ IF c.raised # "none"
                      THEN /\ tool' = ToolCall("query_graph", question, "error",
                                               c.raised, c, <<>>)
                           /\ UNCHANGED <<_graph_agent, agent>>
                      ELSE /\ tool' = ToolCall("query_graph", question,
                                               "running", "", c, <<>>)
                           /\ _graph_agent' = Some("agent")
                           /\ agent' = [NoQuery EXCEPT !.pc = "generate",
                                                       !.question = question,
                                                       !.sent_before = Len(sent)]
    /\ UNCHANGED <<server_up, db, last_op, block, sent>>

\* Step 1 of query: _generate_cypher; an LLMError ends the query.
AgentGenerate ==
    /\ agent.pc = "generate"
    /\ \/ agent' = [agent EXCEPT
              !.pc = "done", !.failed = "generate",
              !.trace = Append(@, "generate"),
              !.result = Some(QueryResult(agent.question, "", <<>>,
                            "Failed to generate query: LLMError", FALSE,
                            Some("LLMError")))]
       \/ \E response \in CypherResponses :
             agent' = [agent EXCEPT
                 !.pc = "execute", !.trace = Append(@, "generate"),
                 !.cypher = _extract_cypher(response)]
    /\ UNCHANGED <<store, _neo4j_client, _graph_agent, sent, tool>>

\* Step 2 of query: _execute_cypher on the client the agent was given; any
\* exception ends the query.
AgentExecute ==
    /\ agent.pc = "execute"
    /\ LET out == run_query(_driver, db, agent.cypher)
       IN  /\ sent' = IF out.sent THEN Append(sent, agent.cypher) ELSE sent
           /\ db' = out.g
           /\ agent' =
                IF out.raised # "none"
                THEN [agent EXCEPT
                        !.pc = "done", !.failed = "execute",
                        !.trace = Append(@, "execute"),
                        !.result = Some(QueryResult(agent.question, agent.cypher,
                                      <<>>,
                                      "Query execution failed: " \o out.raised,
                                      FALSE, Some(out.raised)))]
                ELSE [agent EXCEPT !.pc = "summarize",
                                   !.trace = Append(@, "execute"),
                                   !.raw_results = out.rows]
    /\ UNCHANGED <<_driver, server_up, connected, last_op, block,
                   _neo4j_client, _graph_agent, tool>>

\* Step 3 of query: _summarize_results, _basic_summary on an LLMError.
AgentSummarize ==
    /\ agent.pc = "summarize"
    /\ \/ agent' = [agent EXCEPT
              !.pc = "done", !.failed = "summarize",
              !.trace = Append(@, "summarize"),
              !.result = Some(QueryResult(agent.question, agent.cypher,
                            agent.raw_results,
                            _basic_summary(agent.raw_results), TRUE, None))]
       \/ \E response \in SummaryResponses :
             agent' = [agent EXCEPT
                 !.pc = "done", !.trace = Append(@, "summarize"),
                 !.result = Some(QueryResult(agent.question, agent.cypher,
                               agent.raw_results,
                               IF Len(agent.raw_results) = 0 THEN response
                               ELSE strip(response),
                               TRUE, None))]
    /\ UNCHANGED <<store, _neo4j_client, _graph_agent, sent, tool>>

\* query has returned: query_graph builds its output from the QueryResult.
QueryGraphReturn ==
    /\ agent.pc = "done"
    /\ tool' = [tool EXCEPT !.returned = "ok",
                            !.output = <<agent.result.val>>]
    /\ agent' = [agent EXCEPT !.pc = "idle"]
    /\ UNCHANGED <<store, _neo4j_client, _graph_agent, sent>>

InitMcp == InitOver({SeededGraph})

NextMcp ==
    \/ get_risk_overview /\ UNCHANGED <<calc_vars, threads, scan>>
    \/ run_cypher_query /\ UNCHANGED <<calc_vars, threads, scan>>
    \/ query_graph /\ UNCHANGED <<calc_vars, threads, scan>>
    \/ AgentGenerate /\ UNCHANGED <<calc_vars, threads, scan>>
    \/ AgentExecute /\ UNCHANGED <<calc_vars, threads, scan>>
    \/ AgentSummarize /\ UNCHANGED <<calc_vars, threads, scan>>
    \/ QueryGraphReturn /\ UNCHANGED <<calc_vars, threads, scan>>
    \/ (ServerDown \/ ServerUp) /\ UNCHANGED <<calc_vars, threads, scan, mcp>>

SpecMcp == InitMcp /\ [][NextMcp]_vars

-----------------------------------------------------------------------------
(* Properties of calculate_score's result *)

\* The signal and the result of the call that has just returned.
WS == webservice.val
R == result.val
Returned == pc = "returned"

RECURSIVE SumContributions(_)
SumContributions(factors) ==
    IF factors = <<>> THEN 0
    ELSE Head(factors).contribution + SumContributions(Tail(factors))

HasFactor(name) == \E i \in DOMAIN R.factors : R.factors[i].name = name

FactorNamed(name) ==
    R.factors[CHOOSE i \in DOMAIN R.factors : R.factors[i].name = name]

\* The least element of a non-empty set of indices.
FirstOf(S) == CHOOSE i \in S : \A j \in S : i <= j

\* The rule names in evaluation order, with the points of each rule.
RuleOrder == <<"Live Service", "Non-Production Exposed", "Version Disclosure",
               "Outdated Technology", "No HTTPS", "Directory Listing">>
RulePoints == <<30, 15, 10, 20, 15, 10>>
RuleIndex(name) == CHOOSE i \in DOMAIN RuleOrder : RuleOrder[i] = name

\* The indices of the signature patterns contained in the lowercased text.
MatchingPatterns(text) ==
    LET lowered == lower(text)
    IN  {i \in DOMAIN OUTDATED_TECHNOLOGIES :
            contains(OUTDATED_TECHNOLOGIES[i][1], lowered)}

\* The indices of the indicators contained in the lowercased url.
MatchingIndicators(url) ==
    LET lowered == lower(url)
    IN  {i \in DOMAIN NON_PROD_INDICATORS : contains(NON_PROD_INDICATORS[i], lowered)}

ServerMatches(ws) == ws.server.some /\ MatchingPatterns(ws.server.val) # {}

\* The technologies of a signal, an absent list read as the empty one.
TechnologiesOf(ws) == IF ws.technologies.some THEN ws.technologies.val ELSE <<>>

\* The positions of the technologies entries that contain some pattern.
MatchingEntries(ws) ==
    {k \in DOMAIN TechnologiesOf(ws) : MatchingPatterns(TechnologiesOf(ws)[k]) # {}}

\* The six rule predicates, stated on the signal.
LiveServiceHolds(ws) == ws.status_code = 200
NonProductionHolds(ws) == MatchingIndicators(ws.url) # {}
VersionDisclosureHolds(ws) ==
    /\ ws.server.some
    /\ \E i \in 1..(Len(ws.server.val) - 1) :
          /\ SubSeq(ws.server.val, i, i) = "/"
          /\ SubSeq(ws.server.val, i + 1, i + 1) \in
                {"0", "1", "2", "3", "4", "5", "6", "7", "8", "9"}
OutdatedTechnologyHolds(ws) == ServerMatches(ws) \/ MatchingEntries(ws) # {}
NoHttpsHolds(ws) == Len(ws.url) >= 7 /\ SubSeq(ws.url, 1, 7) = "http://"
DirectoryListingHolds(ws) ==
    ws.title.some /\ contains("index of", lower(ws.title.val))

NoRuleHolds(ws) ==
    /\ ~LiveServiceHolds(ws)
    /\ ~NonProductionHolds(ws)
    /\ ~VersionDisclosureHolds(ws)
    /\ ~OutdatedTechnologyHolds(ws)
    /\ ~NoHttpsHolds(ws)
    /\ ~DirectoryListingHolds(ws)

\* C1: the returned score is min(100, 20 + the sum of the contributions of the
\* returned factors): the cap is applied once, to the final sum.
C1_ScoreIsCappedSum ==
    Returned => R.score = Min(100, 20 + SumContributions(R.factors))

\* A call has returned whose factors sum, with the base, to more than 100.
C1_Witness ==
    Returned /\ 20 + SumContributions(R.factors) = 110 /\ R.score = 100

\* C2: calculate_score never fails RiskResult's range validation, and the
\* returned score lies between the base floor 20 and the cap 100.
C2_ScoreInRange ==
    /\ pc # "raised"
    /\ Returned => (20 <= R.score /\ R.score <= 100 /\ 0 <= R.score)

\* A call has returned for a signal on which all six rules fire: the cap holds
\* the score at 100.
C2_Witness ==
    Returned /\ Len(R.factors) = 6 /\ R.score = 100

\* C3: any two recorded calls with equal signals returned identical results,
\* whatever was evaluated on the instance before or in between.
C3_Deterministic ==
    \A i, j \in DOMAIN calls :
        calls[i].signal = calls[j].signal => calls[i].result = calls[j].result

\* The same signal was scored twice with a different signal scored in between,
\* and its result holds an Outdated Technology factor.
C3_Witness ==
    /\ Len(calls) = 3
    /\ calls[1].signal = calls[3].signal
    /\ calls[2].signal # calls[1].signal
    /\ calls[3].result.some
    /\ \E i \in DOMAIN calls[3].result.val.factors :
          calls[3].result.val.factors[i].name = "Outdated Technology"

\* C4: the returned factors are a subsequence of the fixed rule order: every
\* name is a rule name, the names appear in rule order, none twice, at most 6.
C4_FactorsInRuleOrder ==
    Returned =>
        /\ Len(R.factors) <= 6
        /\ \A i \in DOMAIN R.factors :
              \E n \in DOMAIN RuleOrder : RuleOrder[n] = R.factors[i].name
        /\ \A i, j \in DOMAIN R.factors :
              i < j => RuleIndex(R.factors[i].name) < RuleIndex(R.factors[j].name)

\* A call has returned with both an Outdated Technology and a No HTTPS factor
\* among exactly four factors.
C4_Witness ==
    /\ Returned
    /\ Len(R.factors) = 4
    /\ HasFactor("Outdated Technology")
    /\ HasFactor("No HTTPS")

\* C5: every returned factor has one of the six rule names and carries the
\* fixed points of that rule, whatever the input.
C5_FixedContributions ==
    Returned =>
        \A i \in DOMAIN R.factors :
            \E n \in DOMAIN RuleOrder :
                /\ RuleOrder[n] = R.factors[i].name
                /\ RulePoints[n] = R.factors[i].contribution

\* A call has returned with exactly five factors, Version Disclosure among them.
C5_Witness ==
    Returned /\ Len(R.factors) = 5 /\ HasFactor("Version Disclosure")

\* The signal {url: "https://clean.example.com", statusCode: 404}.
CleanSignal ==
    [url |-> "https://clean.example.com", status_code |-> 404, title |-> None,
     server |-> None, technologies |-> None]

\* C6: the factors list is empty exactly when none of the six rule predicates
\* holds for the signal, and then the score is 20; the clean signal yields
\* score 20 and no factors.
C6_EmptyIffNoRule ==
    Returned =>
        /\ (R.factors = <<>>) <=> NoRuleHolds(WS)
        /\ R.factors = <<>> => R.score = 20
        /\ WS = CleanSignal => (R.score = 20 /\ R.factors = <<>>)

\* The call for the clean signal has returned.
C6_Witness ==
    Returned /\ WS = CleanSignal

\* C7: when the lowercased server contains a signature pattern, the Outdated
\* Technology factor reports the first such pattern in table order with its
\* reason, whatever the technologies list holds.
C7_ServerFirstTableOrder ==
    (Returned /\ ServerMatches(WS)) =>
        LET i == FirstOf(MatchingPatterns(WS.server.val))
        IN  /\ HasFactor("Outdated Technology")
            /\ FactorNamed("Outdated Technology").explanation =
                 "Detected '" \o OUTDATED_TECHNOLOGIES[i][1] \o "': "
                 \o OUTDATED_TECHNOLOGIES[i][2]

\* The server contains two patterns, the first of the table not being the
\* first in the string, while the technologies list has a matching entry too.
C7_Witness ==
    /\ Returned
    /\ WS.server = Some("Apache/2.2.15 PHP/5.4")
    /\ Cardinality(MatchingPatterns(WS.server.val)) = 2
    /\ MatchingEntries(WS) # {}

\* C8: when the server is absent, empty or matches no pattern, the first
\* technologies entry that contains a pattern wins, with the reason of the
\* first pattern in table order it contains; for ["jQuery/1.12", "PHP/5.6"]
\* that is the reason of jquery/1., not of php/5; with no matching entry there
\* is no Outdated Technology factor.
C8_TechnologiesInGivenOrder ==
    (Returned /\ ~ServerMatches(WS)) =>
        /\ IF MatchingEntries(WS) = {}
           THEN ~HasFactor("Outdated Technology")
           ELSE LET k == FirstOf(MatchingEntries(WS))
                    i == FirstOf(MatchingPatterns(TechnologiesOf(WS)[k]))
                IN  /\ HasFactor("Outdated Technology")
                    /\ contains(OUTDATED_TECHNOLOGIES[i][2],
                                FactorNamed("Outdated Technology").explanation)
        /\ WS.technologies = Some(<<"jQuery/1.12", "PHP/5.6">>) =>
              /\ contains("jQuery 1.x has known security vulnerabilities",
                          FactorNamed("Outdated Technology").explanation)
              /\ ~contains("PHP 5.x is end-of-life since January 2019",
                           FactorNamed("Outdated Technology").explanation)

\* The server matches nothing and the technologies are jQuery before PHP.
C8_Witness ==
    /\ Returned
    /\ WS.server = Some("cloudflare")
    /\ WS.technologies = Some(<<"jQuery/1.12", "PHP/5.6">>)

\* C9: the matched text in the Outdated Technology explanation is the
\* lowercase pattern for a server match and the original technology string for
\* a technologies match; the explanation is "Detected '<text>': <reason>".
C9_MatchedTextAsymmetry ==
    Returned =>
        /\ ServerMatches(WS) =>
              LET i == FirstOf(MatchingPatterns(WS.server.val))
                  text == OUTDATED_TECHNOLOGIES[i][1]
              IN  /\ text = lower(text)
                  /\ contains("'" \o text \o "'",
                              FactorNamed("Outdated Technology").explanation)
                  /\ contains(OUTDATED_TECHNOLOGIES[i][2],
                              FactorNamed("Outdated Technology").explanation)
        /\ (~ServerMatches(WS) /\ MatchingEntries(WS) # {}) =>
              LET text == TechnologiesOf(WS)[FirstOf(MatchingEntries(WS))]
                  i == FirstOf(MatchingPatterns(text))
              IN  FactorNamed("Outdated Technology").explanation =
                     "Detected '" \o text \o "': " \o OUTDATED_TECHNOLOGIES[i][2]

\* A technologies match on an entry that is not all lowercase.
C9_Witness ==
    /\ Returned
    /\ ~ServerMatches(WS)
    /\ MatchingEntries(WS) # {}
    /\ LET text == TechnologiesOf(WS)[FirstOf(MatchingEntries(WS))]
       IN  text # lower(text)

\* C10: the Non-Production Exposed factor, worth 15, is produced exactly when
\* the lowercased url contains one of the indicators, and its explanation
\* echoes the first contained indicator in list order.
C10_NonProductionIff ==
    Returned =>
        /\ HasFactor("Non-Production Exposed") <=> MatchingIndicators(WS.url) # {}
        /\ MatchingIndicators(WS.url) # {} =>
              /\ FactorNamed("Non-Production Exposed").contribution = 15
              /\ FactorNamed("Non-Production Exposed").explanation =
                    "URL contains '"
                    \o NON_PROD_INDICATORS[FirstOf(MatchingIndicators(WS.url))]
                    \o "', indicating a non-production environment exposed to the internet"

\* The url holds two indicators, the one that comes first in the url ("qa")
\* being later in the list than the other ("dev").
C10_Witness ==
    /\ Returned
    /\ WS.url = "https://qa.dev.example.com"
    /\ MatchingIndicators(WS.url) = {2, 7}
    /\ contains("'dev'", FactorNamed("Non-Production Exposed").explanation)

\* The names of the returned factors, in their order.
FactorNames == [i \in DOMAIN R.factors |-> R.factors[i].name]

\* Whether some technologies entry holds a slash directly followed by a digit.
VersionedTechnology(ws) ==
    \E k \in DOMAIN TechnologiesOf(ws) :
        \E i \in 1..(Len(TechnologiesOf(ws)[k]) - 1) :
            /\ SubSeq(TechnologiesOf(ws)[k], i, i) = "/"
            /\ SubSeq(TechnologiesOf(ws)[k], i + 1, i + 1) \in
                  {"0", "1", "2", "3", "4", "5", "6", "7", "8", "9"}

\* C11: the Version Disclosure factor, worth 10, is produced exactly when the
\* server is present, non-empty and holds a slash directly followed by a
\* digit; a version in the technologies list alone never produces it.
C11_VersionDisclosureIff ==
    Returned =>
        /\ HasFactor("Version Disclosure") <=> VersionDisclosureHolds(WS)
        /\ HasFactor("Version Disclosure") =>
              /\ FactorNamed("Version Disclosure").contribution = 10
              /\ Len(WS.server.val) > 0
        /\ (VersionedTechnology(WS) /\ ~VersionDisclosureHolds(WS)) =>
              ~HasFactor("Version Disclosure")

\* The only versioned strings of the signal are in its technologies list, the
\* server being present without a version.
C11_Witness ==
    /\ Returned
    /\ WS.server = Some("cloudflare")
    /\ VersionedTechnology(WS)
    /\ ~HasFactor("Version Disclosure")

\* C12: the No HTTPS factor, worth 15, is produced exactly when the url starts
\* with the lowercase literal "http://"; "https://" and "HTTP://" do not
\* produce it, while the Non-Production rule reads the same url
\* case-insensitively.
C12_NoHttpsIff ==
    Returned =>
        /\ HasFactor("No HTTPS") <=> NoHttpsHolds(WS)
        /\ HasFactor("No HTTPS") => FactorNamed("No HTTPS").contribution = 15
        /\ (Len(WS.url) >= 8 /\ SubSeq(WS.url, 1, 8) = "https://") =>
              ~HasFactor("No HTTPS")
        /\ WS.url = "HTTP://DEMO.example.com" =>
              /\ ~HasFactor("No HTTPS")
              /\ HasFactor("Non-Production Exposed")
              /\ contains("'demo'", FactorNamed("Non-Production Exposed").explanation)

\* The call for the url with the upper-case scheme has returned.
C12_Witness ==
    /\ Returned
    /\ WS.url = "HTTP://DEMO.example.com"
    /\ lower(SubSeq(WS.url, 1, 7)) = "http://"

\* The signal {url: "https://api.example.com", statusCode: 200}.
ApiSignal ==
    [url |-> "https://api.example.com", status_code |-> 200, title |-> None,
     server |-> None, technologies |-> None]

\* C13: the Live Service factor, worth 30, is produced exactly when the status
\* code is 200; the api signal yields score 50 and the one factor Live Service.
C13_LiveServiceIff ==
    Returned =>
        /\ HasFactor("Live Service") <=> WS.status_code = 200
        /\ HasFactor("Live Service") => FactorNamed("Live Service").contribution = 30
        /\ WS = ApiSignal =>
              /\ R.score = 50
              /\ FactorNames = <<"Live Service">>
              /\ R.factors[1].contribution = 30

\* The call for the api signal has returned.
C13_Witness ==
    Returned /\ WS = ApiSignal

\* The signal {url: "https://files.example.com", statusCode: 403,
\* title: "Index of /backups"}.
FilesSignal ==
    [url |-> "https://files.example.com", status_code |-> 403,
     title |-> Some("Index of /backups"), server |-> None, technologies |-> None]

\* C14: the Directory Listing factor, worth 10, is produced exactly when the
\* title is present, non-empty and its lowercase form contains "index of",
\* whatever the status code; the files signal triggers only it and scores 30.
C14_DirectoryListingIff ==
    Returned =>
        /\ HasFactor("Directory Listing") <=> DirectoryListingHolds(WS)
        /\ HasFactor("Directory Listing") =>
              /\ FactorNamed("Directory Listing").contribution = 10
              /\ Len(WS.title.val) > 0
        /\ WS = FilesSignal =>
              /\ R.score = 30
              /\ FactorNames = <<"Directory Listing">>

\* The call for the files signal has returned.
C14_Witness ==
    Returned /\ WS = FilesSignal

\* Whether the predicate of each rule holds for the signal, in rule order.
RulePredicates(ws) ==
    <<LiveServiceHolds(ws), NonProductionHolds(ws), VersionDisclosureHolds(ws),
      OutdatedTechnologyHolds(ws), NoHttpsHolds(ws), DirectoryListingHolds(ws)>>

\* The rules (by their place in the rule order) that the signal triggers.
TriggeredRules(ws) ==
    LET holds == RulePredicates(ws)
    IN  {n \in DOMAIN RuleOrder : holds[n]}

RECURSIVE SumPoints(_)
SumPoints(rules) ==
    IF rules = {} THEN 0
    ELSE LET n == CHOOSE n \in rules : TRUE
         IN  RulePoints[n] + SumPoints(rules \ {n})

\* The base score plus the points of the triggered rules, before any cap.
UncappedSum(ws) == 20 + SumPoints(TriggeredRules(ws))

\* Whether the second set of rules is the first one and the rule n, n being new.
OneMoreRule(first, second, n) ==
    n \notin first /\ second = first \cup {n}

ScoreOfCall(i) == calls[i].result.val.score

\* C15 as stated: with exactly one more rule the score does not decrease, and
\* it grows by the points of that rule unless the cap is already active on the
\* first signal.
C15_AsStated ==
    \A i \in DOMAIN calls :
        LET first == TriggeredRules(calls[i].signal)
        IN  \A j \in DOMAIN calls \ {i} :
                LET second == TriggeredRules(calls[j].signal)
                IN  \A n \in DOMAIN RuleOrder :
                        OneMoreRule(first, second, n) =>
                            /\ ScoreOfCall(j) >= ScoreOfCall(i)
                            /\ \/ 20 + SumPoints(first) >= 100
                               \/ ScoreOfCall(j) = ScoreOfCall(i) + RulePoints[n]

\* C15, amended: with exactly one more rule the score does not decrease, and
\* it is the first score plus the points of that rule, or 100 when that sum
\* exceeds 100.
C15_MonotoneUpToCap ==
    \A i \in DOMAIN calls :
        LET first == TriggeredRules(calls[i].signal)
        IN  \A j \in DOMAIN calls \ {i} :
                LET second == TriggeredRules(calls[j].signal)
                IN  \A n \in DOMAIN RuleOrder :
                        OneMoreRule(first, second, n) =>
                            /\ ScoreOfCall(j) >= ScoreOfCall(i)
                            /\ ScoreOfCall(j) =
                                  IF ScoreOfCall(i) + RulePoints[n] > 100
                                  THEN 100
                                  ELSE ScoreOfCall(i) + RulePoints[n]

\* Two calls were made, the second triggering the rules of the first and Live
\* Service; the first scored 80, below the cap, and the second 100.
C15_Witness ==
    /\ Len(calls) = 2
    /\ OneMoreRule(TriggeredRules(calls[1].signal),
                   TriggeredRules(calls[2].signal), 1)
    /\ ScoreOfCall(1) = 80
    /\ ScoreOfCall(2) = 100

\* The rule names of the rules the signal triggers, in rule order.
TriggeredNames(ws) ==
    LET holds == RulePredicates(ws)
    IN  SelectSeq(RuleOrder, LAMBDA name : holds[RuleIndex(name)])

\* C16: a signal that triggers all six rules scores 100 with all six factors;
\* whenever the uncapped sum exceeds 100 the score is 100 and every triggered
\* rule has its factor in the list.
C16_CapCorrect ==
    Returned =>
        /\ TriggeredRules(WS) = 1..6 =>
              /\ UncappedSum(WS) = 120
              /\ R.score = 100
              /\ FactorNames = RuleOrder
        /\ UncappedSum(WS) > 100 =>
              /\ R.score = 100
              /\ FactorNames = TriggeredNames(WS)

\* The call has returned for a signal that triggers all six rules.
C16_Witness ==
    Returned /\ TriggeredRules(WS) = 1..6

\* The signal {url: "http://staging.example.com", statusCode: 200,
\* server: "nginx/1.0.5"}.
StagingSignal ==
    [url |-> "http://staging.example.com", status_code |-> 200, title |-> None,
     server |-> Some("nginx/1.0.5"), technologies |-> None]

\* C17: the staging signal scores 100, capped from 110, with the five factors
\* Live Service, Non-Production Exposed, Version Disclosure, Outdated
\* Technology (matched on nginx/1.0) and No HTTPS, in this order.
C17_StagingExample ==
    (Returned /\ WS = StagingSignal) =>
        /\ R.score = 100
        /\ 20 + SumContributions(R.factors) = 110
        /\ FactorNames = <<"Live Service", "Non-Production Exposed",
                           "Version Disclosure", "Outdated Technology", "No HTTPS">>
        /\ FactorNamed("Outdated Technology").explanation =
              "Detected 'nginx/1.0': Nginx 1.0x is significantly outdated"

\* The call for the staging signal has returned.
C17_Witness ==
    Returned /\ WS = StagingSignal

\* An optional value with the empty string or list read as absent.
EmptyAsAbsent(o) == IF o.some /\ Len(o.val) = 0 THEN None ELSE o

\* The signal with its empty title, server and technologies read as absent.
AbsentForm(ws) ==
    [ws EXCEPT !.title = EmptyAsAbsent(@), !.server = EmptyAsAbsent(@),
               !.technologies = EmptyAsAbsent(@)]

IsAbsentOrEmpty(o) == ~o.some \/ Len(o.val) = 0

\* C18: two recorded calls whose signals differ only in a title, server or
\* technologies being empty in one and absent in the other returned the same
\* result; a rule does not fire on an empty or absent field; and the what-if
\* tool hands an absent field to the calculator for each empty argument.
C18_EmptyIsAbsent ==
    /\ \A i, j \in DOMAIN calls :
          AbsentForm(calls[i].signal) = AbsentForm(calls[j].signal) =>
              calls[i].result = calls[j].result
    /\ Returned =>
          /\ IsAbsentOrEmpty(WS.title) => ~HasFactor("Directory Listing")
          /\ IsAbsentOrEmpty(WS.server) => ~HasFactor("Version Disclosure")
          /\ (IsAbsentOrEmpty(WS.server) /\ IsAbsentOrEmpty(WS.technologies)) =>
                ~HasFactor("Outdated Technology")
    /\ (whatif_args.some /\ pc \in {"called", "returned"}) =>
          /\ whatif_args.val.title = "" => WS.title = None
          /\ whatif_args.val.server = "" => WS.server = None
          /\ whatif_args.val.technologies = "" => WS.technologies = None
          /\ WS = AbsentForm(WS)

\* A direct call with an empty title, server and technologies list was
\* followed by a what-if call with the three arguments empty; the two signals
\* differ and have the same absent form.
C18_Witness ==
    /\ Returned
    /\ Len(calls) = 2
    /\ whatif_args.some
    /\ whatif_args.val.title = ""
    /\ whatif_args.val.server = ""
    /\ whatif_args.val.technologies = ""
    /\ calls[1].signal.title = Some("")
    /\ calls[1].signal.server = Some("")
    /\ calls[1].signal.technologies = Some(<<>>)
    /\ AbsentForm(calls[1].signal) = calls[2].signal

\* C19: for every well-typed signal the call returns a RiskResult: a returned
\* call has a result with an integer score that passes the range validation
\* and a list of factors, and the error state of a failed call is never
\* reached.
C19_Total ==
    /\ pc \in {"idle", "called", "returned"}
    /\ pc = "called" => (webservice.some /\ ~result.some)
    /\ Returned =>
          /\ result.some
          /\ DOMAIN R = {"score", "factors"}
          /\ R.score \in Int
          /\ R.score >= 0 /\ R.score <= 100
          /\ DOMAIN R.factors = 1..Len(R.factors)
          /\ \A i \in DOMAIN R.factors :
                DOMAIN R.factors[i] = {"name", "contribution", "explanation"}

\* A call has returned for a signal whose three optional fields are present
\* and empty.
C19_Witness ==
    /\ Returned
    /\ WS.title = Some("")
    /\ WS.server = Some("")
    /\ WS.technologies = Some(<<>>)
    /\ result.some

\* C20: a call of calculate_score leaves the input signal, with the order of
\* its technologies, the signature table and the indicator list as they were.
C20_NoSideEffect ==
    [][pc = "called" =>
          /\ webservice' = webservice
          /\ _outdated_tech' = _outdated_tech
          /\ _outdated_tech' = OUTDATED_TECHNOLOGIES
          /\ _non_prod_indicators' = _non_prod_indicators
          /\ _non_prod_indicators' = NON_PROD_INDICATORS]_vars

\* A call has returned for a signal with an upper-case url and two
\* technologies, with an Outdated Technology match, and the tables are those
\* of the module.
C20_Witness ==
    /\ Returned
    /\ WS.url = "HTTP://DEMO.example.com"
    /\ WS.technologies = Some(<<"PHP/5.6", "jQuery/1.12">>)
    /\ HasFactor("Outdated Technology")
    /\ _outdated_tech = OUTDATED_TECHNOLOGIES
    /\ _non_prod_indicators = NON_PROD_INDICATORS

-----------------------------------------------------------------------------
(* Independence of concurrent evaluations *)

\* What calculate_score returns for ws when it runs alone on the instance.
Alone(ws) ==
    LET acc == accumulate(OUTDATED_TECHNOLOGIES, NON_PROD_INDICATORS, ws)
    IN  RiskResult(final_score(acc.score), acc.factors)

\* The (signal, result) pairs of the calls that have returned.
ReturnedPairs ==
    {<<threads[t].ws.val, threads[t].result.val>> :
        t \in {u \in Threads : threads[u].pc = "done"}}

\* C21: however the calls of several threads on one calculator instance are
\* interleaved, and in whatever order they are started, no call fails and
\* every call returns what calculate_score returns for its signal when run
\* alone, so the set of (signal, result) pairs depends on the signals only.
C21_Independent ==
    /\ \A t \in Threads : threads[t].pc # "raised"
    /\ \A t \in Threads :
          threads[t].pc = "done" => threads[t].result.val = Alone(threads[t].ws.val)
    /\ ReturnedPairs =
          {<<threads[t].ws.val, Alone(threads[t].ws.val)>> :
              t \in {u \in Threads : threads[u].pc = "done"}}
    /\ _outdated_tech = OUTDATED_TECHNOLOGIES
    /\ _non_prod_indicators = NON_PROD_INDICATORS

\* Two threads with different signals have both returned, different results.
C21_Witness ==
    /\ threads[1].pc = "done"
    /\ threads[2].pc = "done"
    /\ threads[1].ws # threads[2].ws
    /\ threads[1].result.val.score = 100
    /\ threads[2].result.val.score = 20

-----------------------------------------------------------------------------
(* Upserts of the graph store *)

NodesOf(g, label) == {i \in DOMAIN g.nodes : g.nodes[i].label = label}

\* At most one node of the label for every key, keys compared after fold.
OnePerKey(g, label, fold(_)) ==
    \A i, j \in NodesOf(g, label) :
        fold(g.nodes[i].key) = fold(g.nodes[j].key) => i = j

AsGiven(str) == str

OneEdgePerPair(g) ==
    \A k, l \in DOMAIN g.edges : g.edges[k] = g.edges[l] => k = l

Upserts == {"create_domain", "create_subdomain", "create_webservice"}

\* This step repeats the upsert of the step before, with the same arguments.
Repeated ==
    /\ last_op.op \in Upserts
    /\ last_op.ran_query
    /\ last_op'.op = last_op.op
    /\ last_op'.args = last_op.args
    /\ last_op'.ran_query

\* C24: after any sequence of create_domain, create_subdomain and
\* create_webservice calls there is at most one Domain node per lowercased
\* name, one Subdomain node per lowercased fqdn, one WebService node per url
\* and one edge per (parent, child) pair; a call repeated with the same
\* arguments leaves nodes and edges as the first call left them; and no call
\* changes the discovered_at (or label or key) of a node that exists.
C24_IdempotentUpserts ==
    /\ [](/\ OnePerKey(db, "Domain", lower)
          /\ OnePerKey(db, "Subdomain", lower)
          /\ OnePerKey(db, "WebService", AsGiven)
          /\ OneEdgePerPair(db))
    /\ [][/\ Repeated => (db'.nodes = db.nodes /\ db'.edges = db.edges)
          /\ \A i \in DOMAIN db.nodes :
                /\ i \in DOMAIN db'.nodes
                /\ db'.nodes[i].discovered_at = db.nodes[i].discovered_at
                /\ db'.nodes[i].label = db.nodes[i].label
                /\ db'.nodes[i].key = db.nodes[i].key]_vars

\* create_domain has run twice for names that differ in case only, the second
\* time with another source: one Domain node, created by the first call.
C24_Witness ==
    /\ last_op.op = "create_domain"
    /\ last_op.args = <<"Example.COM", "scan">>
    /\ last_op.ran_query
    /\ db.clock = 2
    /\ Cardinality(NodesOf(db, "Domain")) = 1
    /\ \E i \in NodesOf(db, "Domain") :
          /\ db.nodes[i].key = "example.com"
          /\ db.nodes[i].discovered_at = 0
          /\ db.nodes[i].props.source = "scan"

-----------------------------------------------------------------------------
(* Connection management of Neo4jClient *)

GraphOps == {"create_domain", "create_subdomain", "create_webservice",
             "update_risk_score", "create_indexes", "run_query"}

\* This step invokes the operation op' of the client.
Invokes(ops) == last_op'.n = last_op.n + 1 /\ last_op'.op \in ops

\* A graph operation invoked without an established connection raises
\* RuntimeError and runs no query.
RaisesWhenNotConnected ==
    (Invokes(GraphOps) /\ ~connected) =>
        /\ last_op'.raised = "RuntimeError"
        /\ ~last_op'.ran_query
        /\ db' = db

CloseIsSafe ==
    Invokes({"close"}) => (last_op'.raised = "none" /\ _driver' = None)

BlockExitCloses ==
    (block = "body" /\ block' = "outside") => (_driver' = None /\ ~connected')

\* C27: over any sequence of connect, close and graph operations, a graph
\* operation invoked while the client has no successfully established
\* connection (never connected, connect failed during the connectivity
\* verification, or closed since) raises RuntimeError and runs no query; close
\* can be repeated; leaving a with block closes the connection.
C27_AsStated ==
    [][RaisesWhenNotConnected /\ CloseIsSafe /\ BlockExitCloses]_vars

\* What the code does guarantee: the operation raises RuntimeError exactly
\* when the client holds no driver.
RaisesExactlyWithoutDriver ==
    [][/\ Invokes(GraphOps) =>
            ((last_op'.raised = "RuntimeError") <=> ~_driver.some)
       /\ (Invokes(GraphOps) /\ ~_driver.some) => (~last_op'.ran_query /\ db' = db)
       /\ CloseIsSafe
       /\ BlockExitCloses]_vars

-----------------------------------------------------------------------------
(* The scan command *)

\* The target is on the allow-list, letter case ignored.
Allowed ==
    lower(scan.target) \in
        {lower(scan.allowed_targets[k]) : k \in DOMAIN scan.allowed_targets}

\* The persistence step has run to its end without an error.
Persisted ==
    /\ scan.pc = "exited"
    /\ scan.exit_code = Some(0)
    /\ \E k \in DOMAIN scan.events : scan.events[k] = "connect"

\* The signal that the stored properties of a WebService node make up.
StoredSignal(node) ==
    [url |-> node.key, status_code |-> node.props.status_code,
     title |-> node.props.title, server |-> node.props.server,
     technologies |-> Some(node.props.technologies)]

Quoted(str) == "\"" \o str \o "\""

\* A factor as a JSON object with exactly name, contribution, explanation.
SerializedFactor(f) ==
    "{" \o Quoted("name") \o ": " \o Quoted(f.name) \o ", "
        \o Quoted("contribution") \o ": " \o ToString(f.contribution) \o ", "
        \o Quoted("explanation") \o ": " \o Quoted(f.explanation) \o "}"

RECURSIVE SerializedUpTo(_, _)
SerializedUpTo(factors, n) ==
    IF n = 0 THEN ""
    ELSE IF n = 1 THEN SerializedFactor(factors[1])
    ELSE SerializedUpTo(factors, n - 1) \o ", " \o SerializedFactor(factors[n])

\* The JSON list of the factors, in their order.
Serialized(factors) == "[" \o SerializedUpTo(factors, Len(factors)) \o "]"

\* C22: when the scan has completed its persistence step without error, every
\* url that probing returned has a stored WebService node whose risk_score is
\* the score calculate_score gives for the node's stored url, status code,
\* title, server and technologies, and whose risk_factors is that result's
\* factors in order, each with exactly name, contribution and explanation;
\* and no update_risk_score of a scan ever misses its node.
C22_StoredScores ==
    /\ Persisted =>
          \A k \in DOMAIN scan.services_found :
              \E i \in NodesOf(db, "WebService") :
                  LET node == db.nodes[i]
                      expected == Alone(StoredSignal(node))
                  IN  /\ node.key = scan.services_found[k].url
                      /\ node.props.risk_score = Some(expected.score)
                      /\ node.props.risk_factors =
                            Some(Serialized(expected.factors))
    /\ \A k \in DOMAIN scan.events :
          scan.events[k] # "update_risk_score: not found"

\* A scan over a graph left by an earlier scan has stored two reports of one
\* url: the node holds the later report and its score, 55 with two factors.
C22_Witness ==
    /\ Persisted
    /\ Len(scan.services_found) = 2
    /\ scan.services_found[1].url = scan.services_found[2].url
    /\ scan.services_found[1].status_code = 200
    /\ scan.services_found[2].status_code = 404
    /\ \E i \in NodesOf(db, "WebService") :
          /\ db.nodes[i].key = "http://api.example.com"
          /\ db.nodes[i].discovered_at = 2
          /\ db.nodes[i].props.status_code = 404
          /\ db.nodes[i].props.risk_score = Some(55)
          /\ Len(Alone(StoredSignal(db.nodes[i])).factors) = 2

\* C25: a scan whose target is not on the allow-list, letter case ignored,
\* exits with code 1 before subfinder or httpx is run and before any
\* connection or operation of the graph client; collectors and graph
\* operations only happen for an allowed target.
C25_AllowListGate ==
    /\ (scan.pc # "idle" /\ ~Allowed) =>
          /\ scan.pc \in {"validate", "exited"}
          /\ scan.pc = "exited" => scan.exit_code = Some(1)
          /\ scan.events = <<>>
          /\ last_op = NoOp
          /\ _driver = None
          /\ db \in {EmptyGraph, SeededGraph}
    /\ (scan.events # <<>> \/ last_op # NoOp) => Allowed

\* The scan of a target that is not on the list has exited with code 1.
C25_Witness ==
    /\ scan.pc = "exited"
    /\ scan.target = "evil.org"
    /\ ~Allowed
    /\ scan.exit_code = Some(1)
    /\ scan.events = <<>>

-----------------------------------------------------------------------------
(* The MCP tools and the database *)

WRITE_KEYWORDS == {"CREATE", "DELETE", "SET", "MERGE", "REMOVE", "DROP", "DETACH"}

\* The upper-cased text of the query contains a write keyword.
HasForbidden(cypher) ==
    LET text == upper(cypher)
    IN  \E keyword \in WRITE_KEYWORDS : contains(keyword, text)

\* The step is a call of the tool.
Calls(name) == tool'.n = tool.n + 1 /\ tool'.name = name

\* C23: a call of run_cypher_query whose upper-cased query contains one of
\* CREATE, DELETE, SET, MERGE, REMOVE, DROP, DETACH returns an error, obtains
\* no client, sends nothing and leaves the graph as it is; a query that is
\* sent contains none of the keywords and is sent as given.
C23_ReadOnlyQuery ==
    [][Calls("run_cypher_query") =>
          /\ HasForbidden(tool'.arg) =>
                /\ tool'.returned = "error"
                /\ ~tool'.got_client
                /\ _neo4j_client' = _neo4j_client
                /\ _driver' = _driver
                /\ sent' = sent
                /\ db' = db
          /\ sent' # sent =>
                /\ ~HasForbidden(tool'.arg)
                /\ sent' = Append(sent, tool'.arg)]_vars

\* A lower-case DETACH DELETE was refused before any client existed, and the
\* seeded graph is still there.
C23_Witness ==
    /\ tool.name = "run_cypher_query"
    /\ tool.arg = "match (n) detach delete n"
    /\ tool.returned = "error"
    /\ ~_neo4j_client.some
    /\ sent = <<>>
    /\ db = SeededGraph

\* C26: every client get_neo4j_client returns is one whose connect() has
\* completed, and a call made while no connect() has completed attempts it.
C26_ConnectedSingleton ==
    /\ tool.got_client => tool.client_connected
    /\ (tool.n > 0 /\ tool.name # "none" /\ ~tool.client_connected
           /\ (tool.got_client \/ tool.error = "ServiceUnavailable")) =>
          tool.connect_attempted

\* C30: no statement sent to the database by any tool contains a write
\* keyword, and the stored graph stays as it was.
C30_NothingWritten ==
    /\ \A k \in DOMAIN sent : ~HasForbidden(sent[k])
    /\ db = SeededGraph

\* The count summary of a result list.
CountSummary(results) ==
    CASE Len(results) = 0 -> "No results found for this query."
      [] Len(results) = 1 -> "Found 1 result."
      [] OTHER -> "Found " \o ToString(Len(results)) \o " results."

IsPrefix(a, b) == Len(a) <= Len(b) /\ a = SubSeq(b, 1, Len(a))

\* C28: query runs generate, execute, summarize in this order. A failed
\* generation executes nothing and gives success False, empty cypher, empty
\* raw_results and an error; a failed execution is not summarized and gives
\* success False, the generated cypher and an error; a failed summarization
\* gives success True, the raw results and the count summary.
C28_QueryOutcomes ==
    /\ IsPrefix(agent.trace, <<"generate", "execute", "summarize">>)
    /\ agent.pc = "done" =>
          LET r == agent.result.val
          IN  /\ agent.result.some
              /\ agent.failed = "generate" =>
                    /\ agent.trace = <<"generate">>
                    /\ Len(sent) = agent.sent_before
                    /\ ~r.success
                    /\ r.cypher = ""
                    /\ r.raw_results = <<>>
                    /\ r.error.some
              /\ agent.failed = "execute" =>
                    /\ agent.trace = <<"generate", "execute">>
                    /\ ~r.success
                    /\ r.cypher = agent.cypher
                    /\ r.error.some
              /\ agent.failed = "summarize" =>
                    /\ agent.trace = <<"generate", "execute", "summarize">>
                    /\ r.success
                    /\ r.raw_results = agent.raw_results
                    /\ r.summary = CountSummary(agent.raw_results)
              /\ agent.failed = "none" =>
                    /\ agent.trace = <<"generate", "execute", "summarize">>
                    /\ r.success

\* Only the summarization failed, after a query that returned one row.
C28_Witness ==
    /\ agent.pc = "done"
    /\ agent.failed = "summarize"
    /\ Len(agent.raw_results) = 1
    /\ agent.result.val.success

-----------------------------------------------------------------------------
(* Outdated Technology and Version Disclosure *)

\* Some slash of s is directly followed by a digit.
SlashDigit(s) ==
    \E i \in 1..(Len(s) - 1) :
        SubSeq(s, i, i) = "/" /\ SubSeq(s, i + 1, i + 1) \in DigitChars

\* C29: every signature pattern contains a slash followed by a digit; a
\* result with Outdated Technology for a signal whose server matches a
\* pattern has Version Disclosure too and a score of at least 50; Outdated
\* Technology without Version Disclosure comes from a technologies match.
C29_ServerMatchDisclosesVersion ==
    /\ \A i \in DOMAIN OUTDATED_TECHNOLOGIES :
          SlashDigit(OUTDATED_TECHNOLOGIES[i][1])
    /\ Returned =>
          /\ (HasFactor("Outdated Technology") /\ ServerMatches(WS)) =>
                /\ HasFactor("Version Disclosure")
                /\ R.score >= 50
          /\ (HasFactor("Outdated Technology")
                 /\ ~HasFactor("Version Disclosure")) =>
                /\ ~ServerMatches(WS)
                /\ MatchingEntries(WS) # {}

\* The server matched, both factors are there and nothing else: score 50.
C29_Witness ==
    /\ Returned
    /\ ServerMatches(WS)
    /\ HasFactor("Outdated Technology")
    /\ HasFactor("Version Disclosure")
    /\ R.score = 50

====
